---------------------------- MODULE Spec2Model ----------------------------
(***************************************************************************)
(* The InSim (TCP control channel) side of lfsd's OutsimInterface and the  *)
(* gate that keeps the tick loop waiting for a layout.                     *)
(*                                                                         *)
(* Bytes are integers 0..255, byte strings are sequences of bytes.  Python *)
(* values that can be None are sequences of length 0 (None) or 1 (a        *)
(* value): None == <<>>, Some(x) == <<x>>.  A text string is the sequence  *)
(* of its code points.  An exception is a result record with ok = FALSE    *)
(* and the exception's class in err.                                       *)
(***************************************************************************)
EXTENDS Integers, Sequences, FiniteSets, TLC

(***************************************************************************)
(* Bounds of the model.                                                    *)
(***************************************************************************)
\* packets LFS sends over the whole run
MaxSent == 1
\* refused connection attempts that are told apart
MaxAttempts == 2
\* connections LFS closes
MaxCloses == 1

None == <<>>
Some(x) == <<x>>

Min(a, b) == IF a < b THEN a ELSE b

\* Python's s[:n] and s[n:] for n >= 0 (a slice never raises)
Take(s, n) == SubSeq(s, 1, Min(n, Len(s)))
Drop(s, n) == SubSeq(s, Min(n, Len(s)) + 1, Len(s))

Zeros(n) == [i \in 1..n |-> 0]

\* bytes.ljust(n, b"\x00") as struct's "<n>s" pads a short value
Pad(s, n) == s \o Zeros(n - Len(s))

RECURSIVE Concat(_)
Concat(ss) == IF ss = <<>> THEN <<>> ELSE Head(ss) \o Concat(Tail(ss))

IsPrefix(p, s) == Len(p) <= Len(s) /\ SubSeq(s, 1, Len(p)) = p

(***************************************************************************)
(* Results of a call: a value or an exception.                             *)
(***************************************************************************)
Ok(v) == [ok |-> TRUE, err |-> "", val |-> v]
Raise(e) == [ok |-> FALSE, err |-> e, val |-> <<>>]

(***************************************************************************)
(* bytes.decode(): UTF-8.  Every byte below 128 is one code point; the     *)
(* bytes the model feeds in are all below 128, a byte from 128 up that     *)
(* does not start a valid sequence raises UnicodeDecodeError.              *)
(***************************************************************************)
decode(bs) ==
    IF \A i \in 1..Len(bs) : bs[i] < 128 THEN Ok(bs) ELSE Raise("UnicodeDecodeError")

\* str.replace("\x00", "")
RECURSIVE replace_nul(_)
replace_nul(s) ==
    IF s = <<>> THEN <<>>
    ELSE IF Head(s) = 0 THEN replace_nul(Tail(s))
    ELSE <<Head(s)>> \o replace_nul(Tail(s))

\* struct's native "H" on the little-endian machines LFS runs on
U16(lo, hi) == lo + 256 * hi

\* Python's x & 0x4 != 0 on a non-negative int
Bit4(x) == (x \div 4) % 2 = 1

(***************************************************************************)
(* InSimState.from_bytes: "BBBB f HBB BBBB BBBB 6sBB", 28 bytes.  The      *)
(* float is kept as the four bytes that encode it.                         *)
(***************************************************************************)
InSimState_from_bytes(packet) ==
    IF Len(packet) # 28 THEN Raise("AssertionError")
    ELSE LET track == decode(SubSeq(packet, 21, 26)) IN
         IF ~track.ok THEN Raise(track.err)
         ELSE Ok([replay_speed  |-> SubSeq(packet, 5, 8),
                  flags         |-> U16(packet[9], packet[10]),
                  in_game_cam   |-> packet[11],
                  view_plid     |-> packet[12],
                  num_p         |-> packet[13],
                  num_conns     |-> packet[14],
                  num_finished  |-> packet[15],
                  race_in_prog  |-> packet[16],
                  qual_mins     |-> packet[17],
                  race_laps     |-> packet[18],
                  server_status |-> packet[20],
                  track         |-> track.val,
                  weather       |-> packet[27],
                  wind          |-> packet[28]])

\* InSimState.lfs_is_paused
lfs_is_paused(state) == Bit4(state.flags)

(***************************************************************************)
(* handle_insim_packet: returns the 4-tuple                                *)
(*   (packet_to_send, name, insim_state, is_race_start).                   *)
(***************************************************************************)
isp_tiny == 3
isp_axi == 43
isp_rst == 17
isp_sta == 5
tiny_none == 0

handle_insim_packet(packet) ==
    IF Len(packet) < 2 THEN Raise("IndexError")
    ELSE LET packet_type == packet[2] IN
         IF packet_type = isp_tiny THEN
             IF Len(packet) # 4 THEN Raise("struct.error")
             ELSE IF packet[4] = tiny_none
                  THEN Ok(<<Some(packet), None, None, FALSE>>)
                  ELSE Ok(<<None, None, None, FALSE>>)
         ELSE IF packet_type = isp_axi THEN
             IF Len(packet) # 40 THEN Raise("struct.error")
             ELSE LET name_raw == decode(SubSeq(packet, 9, 40)) IN
                  IF ~name_raw.ok THEN Raise(name_raw.err)
                  ELSE Ok(<<None, Some(replace_nul(name_raw.val)), None, FALSE>>)
         ELSE IF packet_type = isp_rst THEN
             Ok(<<None, None, None, TRUE>>)
         ELSE IF packet_type = isp_sta THEN
             LET insim_state == InSimState_from_bytes(packet) IN
             IF ~insim_state.ok THEN Raise(insim_state.err)
             ELSE Ok(<<None, None, Some(insim_state.val), FALSE>>)
         ELSE Ok(<<None, None, None, FALSE>>)

(***************************************************************************)
(* Numbers.  A Python float is the rational it stands for,                 *)
(* <<numerator, denominator>> in lowest terms with a positive              *)
(* denominator; the values the model meets are exact in a double.          *)
(***************************************************************************)
Abs(x) == IF x < 0 THEN -x ELSE x

RECURSIVE Gcd(_, _)
Gcd(a, b) == IF b = 0 THEN a ELSE Gcd(b, a % b)

Rat(n, d) ==
    LET g == Gcd(Abs(n), Abs(d))
        s == IF d < 0 THEN -1 ELSE 1
    IN <<(s * n) \div g, (s * d) \div g>>

RatInt(n) == <<n, 1>>
RatAdd(x, y) == Rat(x[1] * y[2] + y[1] * x[2], x[2] * y[2])
RatSub(x, y) == Rat(x[1] * y[2] - y[1] * x[2], x[2] * y[2])
RatMul(x, y) == Rat(x[1] * y[1], x[2] * y[2])
\* x / y for y # 0
RatDiv(x, y) == Rat(x[1] * y[2], x[2] * y[1])
RatLess(x, y) == x[1] * y[2] < y[1] * x[2]

(***************************************************************************)
(* The layout codec's reader (lyt_interface/io/load_lyt.py).  A coordinate *)
(* is the position in metres, the integer stored in the file divided by    *)
(* 16 (exact in a float).                                                  *)
(***************************************************************************)
\* HEADER_STRUCT = Struct("6sBBhBB"), BLOCK_STRUCT = Struct("2h4B")
HEADER_STRUCT_size == 12
BLOCK_STRUCT_size == 8

\* struct's native "h"
I16(lo, hi) == IF U16(lo, hi) >= 32768 THEN U16(lo, hi) - 65536 ELSE U16(lo, hi)

\* b"LFSLYT"
LFSLYT == <<76, 70, 83, 76, 89, 84>>

\* ConeTypes: UNKNOWN 0, YELLOW 1, BLUE 2, ORANGE_SMALL 3, ORANGE_BIG 4
ConeTypes == <<0, 1, 2, 3, 4>>

\* LytObjectIndexToConeType; None for a KeyError
LytObjectIndexToConeType(idx) ==
    IF idx = 25 THEN Some(0)
    ELSE IF idx \in {29, 30} THEN Some(1)
    ELSE IF idx \in {23, 24} THEN Some(2)
    ELSE IF idx = 27 THEN Some(4)
    ELSE IF idx = 20 THEN Some(3)
    ELSE None

split_header_blocks(data) ==
    <<Take(data, HEADER_STRUCT_size), Drop(data, HEADER_STRUCT_size)>>

\* a faulty variant of verify_lyt_header: the revision is not looked at
verify_lyt_header_any_revision(header_data) ==
    IF Len(header_data) # HEADER_STRUCT_size THEN Raise("struct.error")
    ELSE IF SubSeq(header_data, 1, 6) # LFSLYT THEN Raise("AssertionError")
    ELSE IF ~(header_data[7] <= 0) THEN Raise("AssertionError")
    ELSE Ok(None)

verify_lyt_header(header_data) ==
    IF Len(header_data) # HEADER_STRUCT_size THEN Raise("struct.error")
    ELSE IF SubSeq(header_data, 1, 6) # LFSLYT THEN Raise("AssertionError")
    ELSE IF ~(header_data[7] <= 0) THEN Raise("AssertionError")
    ELSE IF ~(header_data[8] <= 252) THEN Raise("AssertionError")
    ELSE Ok(None)

RECURSIVE extract_blocks(_, _)
extract_blocks(blocks_data, all_cones_per_type) ==
    IF blocks_data = <<>> THEN all_cones_per_type
    ELSE LET b == Take(blocks_data, BLOCK_STRUCT_size)
             cone_type == LytObjectIndexToConeType(b[7])
             \* the file holds sixteenths of a metre
             cone == <<Rat(I16(b[1], b[2]), 16), Rat(I16(b[3], b[4]), 16)>>
             next == IF cone_type = None THEN all_cones_per_type
                     ELSE [all_cones_per_type EXCEPT
                              ![cone_type[1] + 1] = Append(@, cone)]
         IN extract_blocks(Drop(blocks_data, BLOCK_STRUCT_size), next)

extract_cone_lists(blocks_data) ==
    IF Len(blocks_data) % BLOCK_STRUCT_size # 0 THEN Raise("struct.error")
    ELSE Ok(extract_blocks(blocks_data, [t \in 1..Len(ConeTypes) |-> <<>>]))

\* `file` is None when no regular file with suffix .lyt is at the path
load_lyt_file(file) ==
    IF file = None THEN Raise("AssertionError")
    ELSE LET parts == split_header_blocks(file[1])
             header == verify_lyt_header(parts[1])
         IN IF ~header.ok THEN header ELSE extract_cone_lists(parts[2])

(***************************************************************************)
(* LYTInterface.__init__(self, lyt_path, sight_range, sight_angle).  A     *)
(* call is given by the set of its keyword names; Python binds the         *)
(* arguments before the body runs and raises TypeError when a keyword is   *)
(* no parameter or a parameter without default gets no value.              *)
(***************************************************************************)
LYTInterface_parameters == {"lyt_path", "sight_range", "sight_angle"}

LYTInterface(keywords, lyt_path, file) ==
    IF keywords # LYTInterface_parameters THEN Raise("TypeError")
    ELSE LET all_cones_per_type == load_lyt_file(file) IN
         IF ~all_cones_per_type.ok THEN all_cones_per_type
         ELSE Ok([lyt_path |-> lyt_path,
                  all_cones_per_type |-> all_cones_per_type.val])

(***************************************************************************)
(* The files of <lfs_path>/data/layout, by layout name.  "A" is a layout   *)
(* with one yellow cone at (1 m, 2 m) and one object that is no cone; "H", *)
(* "I", "J" and "K" hold one cone of each other kind.  "B" has a wrong     *)
(* magic, "D" version 1, "E" revision 253, "F" ends inside the header and  *)
(* "G" inside a block.  There is no file for "C" or any other name.        *)
(***************************************************************************)
NameA == <<65>>
NameB == <<66>>
NameC == <<67>>
NameD == <<68>>
NameE == <<69>>
NameF == <<70>>
NameG == <<71>>
NameH == <<72>>
NameI == <<73>>
NameJ == <<74>>
NameK == <<75>>

\* HEADER_STRUCT.pack(b"LFSLYT", version, revision, num_objects, 0, 0)
LytHeader(version, revision, num_objects) ==
    LFSLYT \o <<version, revision, num_objects, 0, 0, 0>>

\* BLOCK_STRUCT.pack(x, y, 0, 0, index, 0) for 0 <= x, y < 256
LytBlock(x, y, index) == <<x, 0, y, 0, 0, 0, index, 0>>

FileA == LytHeader(0, 252, 2) \o LytBlock(16, 32, 29) \o LytBlock(0, 0, 184)
FileB == <<76, 70, 83, 76, 89, 88>> \o <<0, 252, 0, 0, 0, 0>>
FileD == LytHeader(1, 252, 0)
FileE == LytHeader(0, 253, 0)
FileF == Take(LytHeader(0, 252, 0), 10)
FileG == LytHeader(0, 252, 1) \o Take(LytBlock(16, 32, 29), 5)
FileH == LytHeader(0, 252, 1) \o LytBlock(48, 16, 23)
FileI == LytHeader(0, 252, 1) \o LytBlock(64, 16, 20)
FileJ == LytHeader(0, 252, 1) \o LytBlock(80, 16, 27)
FileK == LytHeader(0, 252, 1) \o LytBlock(96, 16, 25)

LayoutFiles ==
    {<<NameA, FileA>>, <<NameB, FileB>>, <<NameD, FileD>>, <<NameE, FileE>>,
     <<NameF, FileF>>, <<NameG, FileG>>, <<NameH, FileH>>, <<NameI, FileI>>,
     <<NameJ, FileJ>>, <<NameK, FileK>>}

\* the content of (lyt_path / name).with_suffix(".lyt"), None if it is no file
layout_file(name) ==
    IF \E f \in LayoutFiles : f[1] = name
    THEN Some((CHOOSE f \in LayoutFiles : f[1] = name)[2])
    ELSE None

(***************************************************************************)
(* OutsimInterface: the fields handle_insim_buffer reads and writes, as    *)
(* one record `self`:                                                      *)
(*   written             what was written to the InSim writer, in order    *)
(*   active_layout_name  None or Some(name)                                *)
(*   lyt_interface       None or Some(LYTInterface)                        *)
(*   insim_state         None or Some(InSimState)                          *)
(*   tasks               the coroutines given to aio.create_task, in order *)
(*   handled             the packets passed to handle_insim_packet         *)
(*   reloads             the names reload_lyt_interface went to load       *)
(* handled and reloads are history: the code does not keep them.           *)
(***************************************************************************)
\* LFSInterface.__init__ registers on_race_start
race_start_callbacks == <<"on_race_start">>
\* demo/command_printer.py registers command_printer
command_callbacks == <<"command_printer">>

\* a stateful call's result: the object after it, and the exception if any
Done(self) == [ok |-> TRUE, err |-> "", self |-> self]
Failed(e, self) == [ok |-> FALSE, err |-> e, self |-> self]

\* a faulty variant of lines 161-164: the old cone map is dropped before the
\* new one is there
reload_assign_clearing(self, made) ==
    IF ~made.ok THEN Failed(made.err, [self EXCEPT !.lyt_interface = None])
    ELSE Done([self EXCEPT !.lyt_interface = Some(made.val)])

\* lines 161-164: the constructed LYTInterface is assigned, or the exception
\* of its construction goes on
reload_assign(self, made) ==
    IF ~made.ok THEN Failed(made.err, self)
    ELSE Done([self EXCEPT !.lyt_interface = Some(made.val)])

\* lines 158-164, for the file found (or not) at the layout's path
reload_from(self, name, file) ==
    IF file = None THEN Failed("AssertionError", self)
    ELSE reload_assign(self, LYTInterface({"lyt_path", "detection_model"}, name, file))

\* OutsimInterface.reload_lyt_interface
reload_lyt_interface(self) ==
    IF self.active_layout_name = None THEN Done(self)
    ELSE reload_from([self EXCEPT !.reloads = Append(@, self.active_layout_name[1])],
                     self.active_layout_name[1],
                     layout_file(self.active_layout_name[1]))

(***************************************************************************)
(* Lines 281-287: the tuple handle_insim_packet returned is unpacked into  *)
(* the five names (to_send, layout, new_insim_state, is_race_start,        *)
(* command); Python raises ValueError when the tuple has not five items.   *)
(***************************************************************************)
\* a faulty variant: four names, the first two in the wrong order
unpack_result_names_swapped(t) ==
    IF Len(t) # 4 THEN Raise("ValueError")
    ELSE Ok([to_send |-> t[2], layout |-> t[1], new_insim_state |-> t[3],
             is_race_start |-> t[4], command |-> None])

unpack_result(t) ==
    IF Len(t) # 5 THEN Raise("ValueError")
    ELSE Ok([to_send |-> t[1], layout |-> t[2], new_insim_state |-> t[3],
             is_race_start |-> t[4], command |-> t[5]])

RECURSIVE schedule(_, _, _)
schedule(tasks, callbacks, arg) ==
    IF callbacks = <<>> THEN tasks
    ELSE schedule(Append(tasks, [callback |-> Head(callbacks), arg |-> arg]),
                  Tail(callbacks), arg)

\* lines 288-289
write_to_send(self, r) ==
    IF r.to_send # None THEN [self EXCEPT !.written = Append(@, r.to_send[1])]
    ELSE self

\* lines 290-292
change_layout(self, r) ==
    IF r.layout # None /\ r.layout # self.active_layout_name
    THEN reload_lyt_interface([self EXCEPT !.active_layout_name = r.layout])
    ELSE Done(self)

\* lines 293-294
set_insim_state(self, r) ==
    IF r.new_insim_state # None THEN [self EXCEPT !.insim_state = r.new_insim_state]
    ELSE self

\* lines 296-298
schedule_race_start(self, r) ==
    IF r.is_race_start
    THEN [self EXCEPT !.tasks = schedule(@, race_start_callbacks, None)]
    ELSE self

\* lines 300-302
schedule_command(self, r) ==
    IF r.command # None
    THEN [self EXCEPT !.tasks = schedule(@, command_callbacks, r.command)]
    ELSE self

\* lines 293-302, which run unless the reload raised
after_layout(changed, r) ==
    IF ~changed.ok THEN changed
    ELSE Done(schedule_command(
                  schedule_race_start(set_insim_state(changed.self, r), r), r))

\* lines 288-302: what handle_insim_buffer does with the five names
apply_result(self, r) == after_layout(change_layout(write_to_send(self, r), r), r)

\* lines 281-287, for the result of handle_insim_packet unpacked
bind_names(self, names) ==
    IF names.ok THEN apply_result(self, names.val) ELSE Failed(names.err, self)

\* lines 281-302: one pass of the loop body for the packet copied out
handle_one(self, got) ==
    IF got.ok THEN bind_names(self, unpack_result(got.val)) ELSE Failed(got.err, self)

\* a faulty variant of line 273: the declared length is not looked at
packet_complete_any(buffer) == Len(buffer) > 0

\* line 273: the loop condition
packet_complete(buffer) == Len(buffer) > 0 /\ Len(buffer) >= buffer[1]

(***************************************************************************)
(* OutsimInterface.handle_insim_buffer.  The result carries the returned   *)
(* buffer (on an exception: the local buffer when it was raised).          *)
(***************************************************************************)
RECURSIVE handle_insim_buffer(_, _)

\* the loop goes on with the rest of the buffer unless the pass raised
loop_again(rest, after) ==
    IF ~after.ok
    THEN [ok |-> FALSE, err |-> after.err, buffer |-> rest, self |-> after.self]
    ELSE handle_insim_buffer(rest, after.self)

\* lines 274-302: the packet is copied out, removed from the buffer, handled
loop_body(packet, rest, self) ==
    loop_again(rest, handle_one([self EXCEPT !.handled = Append(@, packet)],
                                handle_insim_packet(packet)))

\* a faulty variant of line 304: the bytes of an incomplete packet are not
\* returned
handle_insim_buffer_dropping(buffer, self) ==
    IF packet_complete(buffer)
    THEN loop_body(Take(buffer, buffer[1]), Drop(buffer, buffer[1]), self)
    ELSE [ok |-> TRUE, err |-> "", buffer |-> <<>>, self |-> self]

handle_insim_buffer(buffer, self) ==
    IF packet_complete(buffer)
    THEN loop_body(Take(buffer, buffer[1]), Drop(buffer, buffer[1]), self)
    ELSE [ok |-> TRUE, err |-> "", buffer |-> buffer, self |-> self]

(***************************************************************************)
(* Packets written on a new connection (connect_to_insim).                 *)
(***************************************************************************)
\* f"lfsd-{os.getpid()}".encode() in a process whose pid is 7
program_name == <<108, 102, 115, 100, 45, 55>>

\* struct.pack("4BHHBcH16s16s", 44, 1, 1, 0, 0, 0, 0, b" ", 0, password, name)
create_insim_initialization_packet(name, password) ==
    <<44, 1, 1, 0>> \o <<0, 0>> \o <<0, 0>> \o <<0, 32>> \o <<0, 0>>
        \o Pad(Take(password, 16), 16) \o Pad(Take(name, 16), 16)

\* bytes([4, 3, 1, 20])
buffer_to_send_for_axi_request == <<4, 3, 1, 20>>

\* struct.pack("BBBB", 4, ISP_TINY, 1, TINY_SST)
create_request_IS_STA_packet == <<4, isp_tiny, 1, 7>>

(***************************************************************************)
(* What LFS may send: well-formed packets of every kind the handler tells  *)
(* apart, and byte strings that are no well-formed packet.                 *)
(***************************************************************************)
KeepAlive == <<4, 3, 0, 0>>
TinyOther == <<4, 3, 0, 7>>
RaceStart == <<4, 17, 0, 0>>
Unknown == <<4, 99, 0, 0>>
\* IS_AXI: Size Type ReqI Zero AXStart NumCP NumO(2) LName(32)
Axi(name) == <<40, 43, 0, 0, 0, 0, 0, 0>> \o Pad(name, 32)
\* IS_STA with ReplaySpeed 1.0, the given Flags word and Track "BL1"
Sta(flags) == <<28, 5, 0, 0>> \o <<0, 0, 128, 63>> \o <<flags % 256, flags \div 256>>
                 \o <<0, 1>> \o <<1, 1, 0, 0>> \o <<0, 0, 0, 1>>
                 \o <<66, 76, 49, 0, 0, 0>> \o <<0, 0>>
\* a tiny packet one byte too long, and length bytes 0 and 1
LongTiny == <<5, 3, 0, 0, 0>>
ZeroLength == <<0>>
OneLength == <<1>>
\* IS_III, the text a user sends with /i: Size Type ReqI Zero UCID PLID Sp2 Sp3
\* Msg; here the text "go"
TextCommand == <<12, 12, 0, 0, 0, 0, 0, 0>> \o <<103, 111, 0, 0>>

\* the first two bytes of a keep-alive packet, all that LFS sent of it
CutShort == <<4, 3>>

Packets ==
    {KeepAlive, TinyOther, RaceStart, Unknown, Axi(NameA), Sta(0), Sta(4),
     LongTiny, ZeroLength, OneLength, TextCommand, CutShort}

\* reader.read(1024)
ReadSize == 1024

VARIABLES
    insim_pc,            \* spin_insim: "connecting", "reading" or "raised"
    connection_attempt,  \* connect_to_insim's attempt counter (1 outside it)
    buffer,              \* spin_insim's local buffer
    wire,                \* bytes LFS sent on the connection, not yet read
    eof,                 \* LFS closed the connection
    sent,                \* packets LFS sent so far
    closes,              \* connections LFS closed so far
    error,               \* the exception that ended the program, "" if none
    written,             \* bytes objects written to the current writer
    active_layout_name,
    lyt_interface,
    insim_state,
    tasks,
    handled,             \* history: packets handled on this connection
    reloads,             \* history: names reload_lyt_interface went to load
    received,            \* history: bytes read on this connection
    partial_seen,        \* history: a read left an incomplete packet buffered
    call,                \* history: the last handle_insim_buffer call
    enter_pc,            \* __aenter__: "start", "waiting" (asleep in the
                         \* wait loop) or "entered" (returned)
    arg,                 \* the argument of a method applied on its own
    ret,                 \* None, or Some(how that method ended)
    aiter_pc,            \* __aiter__: "idle" (not started), "polling" or "raised"
    aiter,               \* __aiter__'s locals
    clock,               \* time.time(), in sleeps of the polling loop
    mmap_data,           \* the sample the simulator side last wrote to the mmap
    mmap_written,        \* the simulator side wrote since the last poll
    simulation_time,     \* self._simulation_time
    yielded,             \* history: the LFSData yielded so far
    polls,               \* history: polls made after the steady start
    quiet_polls,         \* history: polls of the steady start that found
                         \* nothing new
    lfs_paused,          \* the simulator is paused
    lfs_handled,         \* packets of `written` the simulator has acted on
    pause_calls,         \* history: the pause, unpause and toggle calls made
    simulation_timer_callbacks,  \* self.simulation_timer_callbacks
    timer_log,           \* history: the timer runs counted, and per callback
                         \* the simulation time it was armed or last invoked
    data_to_send_outside,  \* demo/data_propagator.py: self._data_to_send_outside
    send_pc,             \* spin_send_lfs_data: "sleeping" (in asyncio.sleep) or
                         \* "sending" (in the await of send)
    send_json,           \* spin_send_lfs_data's local send_json
    send_log             \* history: the snapshots stored (a count) and the
                         \* ones the consumer was sent

vars == <<insim_pc, connection_attempt, buffer, wire, eof, sent, closes, error,
          written, active_layout_name, lyt_interface, insim_state, tasks,
          handled, reloads, received, partial_seen, call, enter_pc, arg, ret,
          aiter_pc, aiter, clock, mmap_data, mmap_written, simulation_time,
          yielded, polls, quiet_polls, lfs_paused, lfs_handled, pause_calls,
          simulation_timer_callbacks, timer_log, data_to_send_outside, send_pc,
          send_json, send_log>>

objvars == <<written, active_layout_name, lyt_interface, insim_state, tasks,
             handled, reloads>>
envvars == <<wire, eof, sent, closes>>
entervars == <<enter_pc>>
methodvars == <<arg, ret>>
tickvars == <<aiter_pc, aiter, clock, mmap_data, mmap_written, simulation_time,
              yielded, polls, quiet_polls>>
ctlvars == <<lfs_paused, lfs_handled, pause_calls, simulation_timer_callbacks, timer_log>>
sendvars == <<data_to_send_outside, send_pc, send_json, send_log>>

\* OutsimInterface.__init__ and the tasks LFSInterface.spin gathers
(***************************************************************************)
(* The shared memory holds one sample at a time.  A sample is named by its *)
(* kind, the number of the write that put it there (its 8-byte timestamp)  *)
(* and the angular velocity it carries; BlankSample is the zero-filled     *)
(* file before the first write.  Before __aiter__ is entered there are no  *)
(* locals and nothing was yielded.                                         *)
(***************************************************************************)
BlankSample == [kind |-> "blank", stamp |-> 0, omega |-> 1]

\* no snapshot stored, the sender asleep
SendIdle ==
    /\ data_to_send_outside = None
    /\ send_pc = "sleeping"
    /\ send_json = None
    /\ send_log = [stored |-> 0, sent |-> <<>>]

\* nothing registered, no pause call made
ControlIdle ==
    /\ lfs_paused = FALSE
    /\ lfs_handled = 0
    /\ pause_calls = <<>>
    /\ simulation_timer_callbacks = <<>>
    /\ timer_log = [runs |-> 0, since |-> <<>>]

TickIdle ==
    /\ aiter_pc = "idle"
    /\ aiter = None
    /\ clock = 0
    /\ mmap_data = BlankSample
    /\ mmap_written = FALSE
    /\ simulation_time = None
    /\ yielded = <<>>
    /\ polls = 0
    /\ quiet_polls = 0

Init ==
    /\ insim_pc = "connecting"
    /\ connection_attempt = 1
    /\ buffer = <<>>
    /\ wire = <<>>
    /\ eof = FALSE
    /\ sent = 0
    /\ closes = 0
    /\ error = ""
    /\ written = <<>>
    /\ active_layout_name = None
    /\ lyt_interface = None
    /\ insim_state = None
    /\ tasks = <<>>
    /\ handled = <<>>
    /\ reloads = <<>>
    /\ received = <<>>
    /\ partial_seen = FALSE
    /\ call = None
    /\ enter_pc = "start"
    /\ arg = None
    /\ ret = None
    /\ TickIdle
    /\ ControlIdle
    /\ SendIdle

\* spin() returns with the exception of the first task that raises
running == insim_pc # "raised"

(***************************************************************************)
(* connect_to_insim: open_connection is refused (sleep, next attempt) ...  *)
(***************************************************************************)
ConnectRefused ==
    /\ running
    /\ insim_pc = "connecting"
    /\ connection_attempt < MaxAttempts
    /\ connection_attempt' = connection_attempt + 1
    /\ UNCHANGED <<insim_pc, buffer, error, received, partial_seen, call>>
    /\ UNCHANGED <<objvars, envvars, entervars, methodvars, tickvars, ctlvars, sendvars>>

\* a faulty variant of lines 254-256: spin_insim goes on with the buffer it had
ConnectAccepted_keeping_buffer ==
    /\ running
    /\ insim_pc = "connecting"
    /\ insim_pc' = "reading"
    /\ written' = <<create_insim_initialization_packet(program_name, <<>>),
                    buffer_to_send_for_axi_request,
                    create_request_IS_STA_packet>>
    /\ buffer' = buffer
    /\ wire' = <<>>
    /\ eof' = FALSE
    /\ handled' = <<>>
    /\ received' = <<>>
    /\ partial_seen' = FALSE
    /\ connection_attempt' = 1
    /\ UNCHANGED <<sent, closes, error, active_layout_name,
                   lyt_interface, insim_state, tasks, reloads, call>>
    /\ UNCHANGED <<entervars, methodvars, tickvars, ctlvars, sendvars>>

\* a faulty variant of lines 238-252: the layout name is asked for before the
\* initialization packet is sent
ConnectAccepted_request_first ==
    /\ running
    /\ insim_pc = "connecting"
    /\ insim_pc' = "reading"
    /\ written' = <<buffer_to_send_for_axi_request,
                    create_insim_initialization_packet(program_name, <<>>),
                    create_request_IS_STA_packet>>
    /\ buffer' = <<>>
    /\ wire' = <<>>
    /\ eof' = FALSE
    /\ handled' = <<>>
    /\ received' = <<>>
    /\ partial_seen' = FALSE
    /\ connection_attempt' = 1
    /\ UNCHANGED <<sent, closes, error, active_layout_name,
                   lyt_interface, insim_state, tasks, reloads, call>>
    /\ UNCHANGED <<entervars, methodvars, tickvars, ctlvars, sendvars>>

(***************************************************************************)
(* ... or succeeds: the three packets are written to the new writer and    *)
(* spin_insim goes on with an empty buffer.                                *)
(***************************************************************************)
ConnectAccepted ==
    /\ running
    /\ insim_pc = "connecting"
    /\ insim_pc' = "reading"
    /\ written' = <<create_insim_initialization_packet(program_name, <<>>),
                    buffer_to_send_for_axi_request,
                    create_request_IS_STA_packet>>
    /\ buffer' = <<>>
    /\ wire' = <<>>
    /\ eof' = FALSE
    /\ handled' = <<>>
    /\ received' = <<>>
    /\ partial_seen' = FALSE
    /\ connection_attempt' = 1
    /\ UNCHANGED <<sent, closes, error, active_layout_name,
                   lyt_interface, insim_state, tasks, reloads, call>>
    /\ UNCHANGED <<entervars, methodvars, tickvars, ctlvars, sendvars>>

\* LFS sends a packet on the open connection
LfsSend ==
    /\ running
    /\ insim_pc = "reading"
    /\ ~eof
    /\ sent < MaxSent
    /\ \E p \in Packets : wire' = wire \o p
    /\ sent' = sent + 1
    /\ UNCHANGED <<insim_pc, connection_attempt, buffer, eof, closes, error,
                   received, partial_seen, call>>
    /\ UNCHANGED <<objvars, entervars, methodvars, tickvars, ctlvars, sendvars>>

\* LFS closes the connection
LfsClose ==
    /\ running
    /\ insim_pc = "reading"
    /\ ~eof
    /\ closes < MaxCloses
    /\ eof' = TRUE
    /\ closes' = closes + 1
    /\ UNCHANGED <<insim_pc, connection_attempt, buffer, wire, sent, error,
                   received, partial_seen, call>>
    /\ UNCHANGED <<objvars, entervars, methodvars, tickvars, ctlvars, sendvars>>

(***************************************************************************)
(* One iteration of spin_insim's loop: read, append, handle_insim_buffer;  *)
(* after an empty read close the writer and connect again.  An exception   *)
(* of handle_insim_buffer ends spin_insim and with it spin(): the          *)
(* coroutine's buffer is gone and the socket is closed with what is on it. *)
(***************************************************************************)
ReadStep(data) ==
    LET self == [written |-> written, active_layout_name |-> active_layout_name,
                 lyt_interface |-> lyt_interface, insim_state |-> insim_state,
                 tasks |-> tasks, handled |-> handled, reloads |-> reloads]
        input == buffer \o data
        res == handle_insim_buffer(input, self)
    IN /\ received' = received \o data
       /\ written' = res.self.written
       /\ active_layout_name' = res.self.active_layout_name
       /\ lyt_interface' = res.self.lyt_interface
       /\ insim_state' = res.self.insim_state
       /\ tasks' = res.self.tasks
       /\ handled' = res.self.handled
       /\ reloads' = res.self.reloads
       /\ call' = Some([input |-> input, ok |-> res.ok, buffer |-> res.buffer,
                        handled |-> SubSeq(res.self.handled, Len(handled) + 1,
                                           Len(res.self.handled))])
       /\ IF ~res.ok
          THEN /\ insim_pc' = "raised"
               /\ error' = res.err
               /\ buffer' = <<>>
               /\ wire' = <<>>
               /\ UNCHANGED partial_seen
          ELSE /\ buffer' = res.buffer
               /\ wire' = Drop(wire, Len(data))
               /\ error' = error
               /\ partial_seen' = (partial_seen \/ res.buffer # <<>>)
               /\ insim_pc' = IF data = <<>> THEN "connecting" ELSE "reading"
       /\ UNCHANGED <<connection_attempt, eof, sent, closes>>
       /\ UNCHANGED <<entervars, methodvars, tickvars, ctlvars, sendvars>>

Read ==
    /\ running
    /\ insim_pc = "reading"
    /\ \/ /\ wire # <<>>
          /\ \E k \in 1..Min(Len(wire), ReadSize) : ReadStep(Take(wire, k))
       \/ /\ wire = <<>>
          /\ eof
          /\ ReadStep(<<>>)

\* a faulty variant of line 178: the wait ends at once
layout_is_loaded_always(lyt) == TRUE

\* line 178: the condition that ends __aenter__'s wait
layout_is_loaded(lyt) == lyt # None

(***************************************************************************)
(* __aenter__'s wait loop: one pass.  Only after it the tick loop          *)
(* (__aiter__) is started by LFSInterface.__loop_outsim.                   *)
(***************************************************************************)
EnterPoll ==
    /\ running
    /\ enter_pc \in {"start", "waiting"}
    /\ enter_pc' = IF layout_is_loaded(lyt_interface) THEN "entered" ELSE "waiting"
    /\ UNCHANGED <<insim_pc, connection_attempt, buffer, error, received,
                   partial_seen, call>>
    /\ UNCHANGED <<objvars, envvars, methodvars, tickvars, ctlvars, sendvars>>

Next ==
    \/ ConnectRefused
    \/ ConnectAccepted
    \/ LfsSend
    \/ LfsClose
    \/ Read
    \/ EnterPoll

Spec == Init /\ [][Next]_vars


(***************************************************************************)
(* Lines 290-292 applied on their own: the layout name `arg` that          *)
(* handle_insim_packet extracted (None for a packet that is no layout      *)
(* announcement) meets an interface that has no layout yet or has loaded   *)
(* the layout it names.                                                    *)
(***************************************************************************)
ValidLayouts == {NameA, NameH, NameI, NameJ, NameK}
LayoutNames == {NameA, NameB, NameC, NameD, NameE, NameF, NameG, NameH, NameI,
                NameJ, NameK}

\* LYTInterface(lyt_path, sight_range, sight_angle) for a layout that loads
LoadedFrom(name) ==
    LYTInterface(LYTInterface_parameters, name, layout_file(name)).val

InitReload ==
    /\ insim_pc = "reading"
    /\ connection_attempt = 1
    /\ buffer = <<>>
    /\ wire = <<>>
    /\ eof = FALSE
    /\ sent = 0
    /\ closes = 0
    /\ error = ""
    /\ written = <<>>
    /\ \E n \in {None} \cup {Some(v) : v \in ValidLayouts} :
           /\ active_layout_name = n
           /\ lyt_interface = IF n = None THEN None ELSE Some(LoadedFrom(n[1]))
    /\ insim_state = None
    /\ tasks = <<>>
    /\ handled = <<>>
    /\ reloads = <<>>
    /\ received = <<>>
    /\ partial_seen = FALSE
    /\ call = None
    /\ enter_pc = "start"
    /\ arg \in {None} \cup {Some(n) : n \in LayoutNames}
    /\ ret = None
    /\ TickIdle
    /\ ControlIdle
    /\ SendIdle

ChangeLayout ==
    /\ ret = None
    /\ LET self == [written |-> written, active_layout_name |-> active_layout_name,
                    lyt_interface |-> lyt_interface, insim_state |-> insim_state,
                    tasks |-> tasks, handled |-> handled, reloads |-> reloads]
           res == change_layout(self, [layout |-> arg])
       IN /\ active_layout_name' = res.self.active_layout_name
          /\ lyt_interface' = res.self.lyt_interface
          /\ reloads' = res.self.reloads
          /\ error' = res.err
          /\ ret' = Some([ok |-> res.ok, err |-> res.err])
    /\ UNCHANGED <<insim_pc, connection_attempt, buffer, received, partial_seen,
                   call, written, insim_state, tasks, handled, arg>>
    /\ UNCHANGED <<envvars, entervars, tickvars, ctlvars, sendvars>>

NextReload == ChangeLayout

SpecReload == InitReload /\ [][NextReload]_vars

(***************************************************************************)
(* Vocabulary of the properties.  A packet is "handled" when it is passed  *)
(* to handle_insim_packet (the docstring of handle_insim_buffer).          *)
(***************************************************************************)
\* the step is one iteration of spin_insim's loop
IsRead == insim_pc = "reading" /\ (received' # received \/ insim_pc' = "connecting")

\* the bytes the step read and the packets it handled
NewData == SubSeq(received', Len(received) + 1, Len(received'))
NewHandled == SubSeq(handled', Len(handled) + 1, Len(handled'))

\* a buffer shorter than the length its first byte declares
PartialFront(b) == b # <<>> /\ Len(b) < b[1]

IsKeepAlivePacket(p) == Len(p) = 4 /\ p[1] = 4 /\ p[2] = 3 /\ p[4] = 0
IsLayoutNamePacket(p) == Len(p) = 40 /\ p[2] = 43
IsStatePacket(p) == Len(p) = 28 /\ p[2] = 5
IsUnrecognizedPacket(p) ==
    /\ Len(p) >= 2
    /\ Len(p) = p[1]
    /\ \/ p[2] \notin {3, 43, 17, 5}
       \/ p[2] = 3 /\ Len(p) = 4 /\ p[4] # 0

\* the name a layout-name packet announces: LName without its NUL bytes
AnnouncedName(p) == replace_nul(SubSeq(p, 9, 40))

\* the active layout name and the reloads begun once the packets ps are
\* handled in order, if a reload is begun exactly for a changed name
RECURSIVE LayoutsAfter(_, _)
LayoutsAfter(ps, st) ==
    IF ps = <<>> THEN st
    ELSE IF IsLayoutNamePacket(Head(ps)) /\ Some(AnnouncedName(Head(ps))) # st.name
         THEN LayoutsAfter(Tail(ps),
                           [name |-> Some(AnnouncedName(Head(ps))),
                            reloads |-> Append(st.reloads, AnnouncedName(Head(ps)))])
         ELSE LayoutsAfter(Tail(ps), st)

LastStatePacket(ps) ==
    ps[CHOOSE i \in 1..Len(ps) :
           IsStatePacket(ps[i]) /\ \A j \in (i + 1)..Len(ps) : ~IsStatePacket(ps[j])]

(***************************************************************************)
(* C1.  For every buffer given to handle_insim_buffer the call returns a   *)
(* remainder, the packets it handled are consecutive slices from the front *)
(* of the buffer, each as long as its own first byte says, and the handled *)
(* packets followed by the returned remainder are exactly the input.       *)
(***************************************************************************)
C1_HandledThenRemainderIsInput ==
    call # None =>
        /\ call[1].ok
        /\ \A i \in 1..Len(call[1].handled) :
               /\ call[1].handled[i] # <<>>
               /\ Len(call[1].handled[i]) = call[1].handled[i][1]
        /\ Concat(call[1].handled) \o call[1].buffer = call[1].input

(***************************************************************************)
(* C2.  A read that leaves the buffer shorter than the length its first    *)
(* byte declares returns those bytes unchanged and has no effect: nothing  *)
(* is written, no layout or state changes, no callback is scheduled and no *)
(* packet is handled.  The read that appends the missing bytes handles     *)
(* that packet, and no byte received is ever handled twice: the handled    *)
(* packets, in order, are a prefix of what was received.                   *)
(***************************************************************************)
C2_PartialPacketWaits ==
    /\ [][IsRead =>
            /\ PartialFront(buffer \o NewData) =>
                   /\ buffer' = buffer \o NewData
                   /\ handled' = handled
                   /\ insim_pc' # "raised"
                   /\ UNCHANGED <<written, active_layout_name, lyt_interface,
                                  insim_state, tasks, reloads>>
            /\ (PartialFront(buffer) /\ ~PartialFront(buffer \o NewData)) =>
                   /\ Len(handled') > Len(handled)
                   /\ handled'[Len(handled) + 1] = Take(buffer \o NewData, buffer[1])
         ]_vars
    /\ [](IsPrefix(Concat(handled), received))

\* a packet that waited in the buffer for its missing bytes has been handled
C2_Witness ==
    /\ partial_seen
    /\ Len(handled) = 1
    /\ Len(handled[1]) > 1
    /\ Len(handled[1]) = handled[1][1]

(***************************************************************************)
(* C3.  Over the packets a read handles, a reload is begun for a layout-   *)
(* name packet exactly when the announced name differs from                *)
(* active_layout_name at that moment, and active_layout_name is then the   *)
(* announced name.                                                         *)
(***************************************************************************)
C3_ReloadIffNameChanged ==
    [][IsRead =>
         LET expected == LayoutsAfter(NewHandled, [name |-> active_layout_name,
                                                   reloads |-> reloads])
         IN /\ active_layout_name' = expected.name
            /\ reloads' = expected.reloads
      ]_vars

(***************************************************************************)
(* C4.  The tick loop, which alone calls process_outsim_data and emits     *)
(* snapshots, runs only once __aenter__ has returned; whenever it has      *)
(* returned, a layout is loaded, however the insim task and the wait loop  *)
(* interleave.                                                             *)
(***************************************************************************)
C4_NoTickBeforeLayout == enter_pc = "entered" => lyt_interface # None

\* the wait loop has been through a pass and sleeps, with bytes of LFS read
\* by the insim task and no layout loaded
C4_Witness ==
    /\ enter_pc = "waiting"
    /\ received # <<>>
    /\ lyt_interface = None

(***************************************************************************)
(* C6.  When changing to an announced layout fails, lyt_interface is left  *)
(* exactly as it was; whatever lyt_interface holds is None or the          *)
(* complete cone map of a layout file that loads.                          *)
(***************************************************************************)
C6_FailedLoadKeepsConeMap ==
    /\ [][(ret = None /\ ret' # None /\ ~ret'[1].ok) =>
              lyt_interface' = lyt_interface]_vars
    /\ [](lyt_interface = None
          \/ \E n \in ValidLayouts : lyt_interface = Some(LoadedFrom(n)))

\* the layout "G", whose file ends inside a block, was announced to an
\* interface holding the cone map of "A": the change failed
C6_Witness ==
    /\ ret # None
    /\ ~ret[1].ok
    /\ arg = Some(NameG)
    /\ active_layout_name = Some(NameG)
    /\ reloads = <<NameG>>
    /\ lyt_interface = Some(LoadedFrom(NameA))

(***************************************************************************)
(* C7.  A read writes back exactly the keep-alive packets (type 3, sub-    *)
(* type 0) among the packets it handles, each once and in order, and       *)
(* nothing for any other packet.                                           *)
(***************************************************************************)
C7_KeepAliveEchoed ==
    [][IsRead => written' = written \o SelectSeq(NewHandled, IsKeepAlivePacket)]_vars

(***************************************************************************)
(* C8.  Once a state packet (type 5) is among the handled packets,         *)
(* insim_state is the decode of the last of them and lfs_is_paused holds   *)
(* exactly when the flags field of that packet has the bit of value 4.     *)
(***************************************************************************)
C8_StateIsLastStatePacket ==
    (\E i \in 1..Len(handled) : IsStatePacket(handled[i])) =>
        /\ insim_state # None
        /\ insim_state[1] = InSimState_from_bytes(LastStatePacket(handled)).val
        /\ lfs_is_paused(insim_state[1])
               <=> ((LastStatePacket(handled)[9] \div 4) % 2 = 1)

(***************************************************************************)
(* C9.  insim_state changes only in a read that handles a packet of type   *)
(* 5; active_layout_name and lyt_interface change only in a read that      *)
(* handles a packet of type 43.  No other step changes them.               *)
(***************************************************************************)
C9_OnlyItsPacketChangesField ==
    [][/\ insim_state' # insim_state =>
              /\ IsRead
              /\ \E i \in 1..Len(NewHandled) :
                     Len(NewHandled[i]) >= 2 /\ NewHandled[i][2] = 5
       /\ (active_layout_name' # active_layout_name
              \/ lyt_interface' # lyt_interface) =>
              /\ IsRead
              /\ \E i \in 1..Len(NewHandled) :
                     Len(NewHandled[i]) >= 2 /\ NewHandled[i][2] = 43
      ]_vars

\* a packet that is neither a state nor a layout-name packet has been
\* handled, and the three fields are as they were constructed
C9_Witness ==
    /\ handled # <<>>
    /\ Len(handled[1]) >= 2
    /\ handled[1][2] \notin {5, 43}
    /\ insim_state = None
    /\ active_layout_name = None
    /\ lyt_interface = None

(***************************************************************************)
(* C10.  A read that handles only complete packets of no recognized kind   *)
(* (a type that is none of 3, 43, 17, 5, or type 3 with a non-zero sub-    *)
(* type) raises no error, writes nothing, schedules no callback, changes   *)
(* none of active_layout_name, lyt_interface, insim_state, and goes on     *)
(* until no complete packet is left in the buffer.                         *)
(***************************************************************************)
C10_UnrecognizedIgnored ==
    [][(/\ IsRead
        /\ NewHandled # <<>>
        /\ \A i \in 1..Len(NewHandled) : IsUnrecognizedPacket(NewHandled[i])) =>
            /\ insim_pc' # "raised"
            /\ UNCHANGED <<written, tasks, active_layout_name, lyt_interface,
                           insim_state>>
            /\ buffer' = <<>> \/ Len(buffer') < buffer'[1]
      ]_vars

IsRaceStartPacket(p) == Len(p) >= 2 /\ Len(p) = p[1] /\ p[2] = 17
IsTextCommandPacket(p) == Len(p) >= 8 /\ Len(p) = p[1] /\ p[2] = 12

\* the text a text-command packet carries: Msg without its NUL bytes
CommandText(p) == replace_nul(SubSeq(p, 9, Len(p)))

\* the callbacks in registration order, each to be called with argument a
CallsOf(callbacks, a) ==
    [i \in 1..Len(callbacks) |-> [callback |-> callbacks[i], arg |-> a]]

\* what is to be scheduled for the packets ps handled in order
RECURSIVE RaceStartCallsFor(_)
RaceStartCallsFor(ps) ==
    IF ps = <<>> THEN <<>>
    ELSE (IF IsRaceStartPacket(Head(ps)) THEN CallsOf(race_start_callbacks, None)
          ELSE <<>>) \o RaceStartCallsFor(Tail(ps))

RECURSIVE CommandCallsFor(_)
CommandCallsFor(ps) ==
    IF ps = <<>> THEN <<>>
    ELSE (IF IsTextCommandPacket(Head(ps))
          THEN CallsOf(command_callbacks, Some(CommandText(Head(ps))))
          ELSE <<>>) \o CommandCallsFor(Tail(ps))

IsRaceStartCall(t) == \E i \in 1..Len(race_start_callbacks) : t.callback = race_start_callbacks[i]
IsCommandCall(t) == \E i \in 1..Len(command_callbacks) : t.callback = command_callbacks[i]

(***************************************************************************)
(* C11.  A read schedules, for each race-start packet (type 17) it         *)
(* handles, every registered race-start callback once and in registration  *)
(* order, and schedules no race-start callback for any other packet.       *)
(***************************************************************************)
C11_RaceStartScheduled ==
    [][IsRead => SelectSeq(tasks', IsRaceStartCall)
                     = SelectSeq(tasks, IsRaceStartCall) \o RaceStartCallsFor(NewHandled)
      ]_vars

(***************************************************************************)
(* C12.  A read schedules, for each text-command packet it handles, every  *)
(* registered command callback once with the text of that command, and     *)
(* schedules no command callback for any other packet.                     *)
(***************************************************************************)
C12_CommandScheduled ==
    [][IsRead => SelectSeq(tasks', IsCommandCall)
                     = SelectSeq(tasks, IsCommandCall) \o CommandCallsFor(NewHandled)
      ]_vars

\* the sum of xs[lo..hi], halving the range
RECURSIVE RatSumRange(_, _, _)
RatSumRange(xs, lo, hi) ==
    IF lo > hi THEN RatInt(0)
    ELSE IF lo = hi THEN xs[lo]
    ELSE RatAdd(RatSumRange(xs, lo, (lo + hi) \div 2),
                RatSumRange(xs, (lo + hi) \div 2 + 1, hi))

RatSum(xs) == RatSumRange(xs, 1, Len(xs))

\* np.mean of a non-empty list
np_mean(xs) == RatDiv(RatSum(xs), RatInt(Len(xs)))

RECURSIVE Pow2(_)
Pow2(k) == IF k = 0 THEN 1 ELSE 2 * Pow2(k - 1)

(***************************************************************************)
(* struct's native "f": an IEEE 754 single, little-endian.  Zero and the   *)
(* normal numbers with exponent bits 127 - 7 .. 127 + 7 are decoded to     *)
(* their value; any other encoding is kept as the bytes (the model does no *)
(* arithmetic on it).                                                      *)
(***************************************************************************)
F32(b) ==
    LET negative == b[4] >= 128
        exponent == (b[4] % 128) * 2 + b[3] \div 128
        mantissa == (b[3] % 128) * 65536 + b[2] * 256 + b[1]
        magnitude == IF exponent >= 150
                     THEN Rat((8388608 + mantissa) * Pow2(exponent - 150), 1)
                     ELSE Rat(8388608 + mantissa, Pow2(150 - exponent))
    IN IF exponent = 0 /\ mantissa = 0 THEN RatInt(0)
       ELSE IF exponent < 120 \/ exponent > 134 THEN [f32 |-> b]
       ELSE IF negative THEN RatSub(RatInt(0), magnitude) ELSE magnitude

\* struct's native "i" and "I" on a little-endian machine, for values below 2^31
I32(b) == b[1] + 256 * b[2] + 65536 * b[3] + 16777216 * b[4]

(***************************************************************************)
(* decode_full_outsim_packet.  OUTSIM_FULL_STRUCT ("4ciI 12f3i 5f b3x2f 2f *)
(* (7f3Bx2f)*4") is 272 bytes.  The header and the angular velocity are    *)
(* decoded; the fields after it are kept as the bytes that encode them.    *)
(***************************************************************************)
OUTSIM_FULL_STRUCT_size == 272

\* b"LFST"
LFST == <<76, 70, 83, 84>>

\* a faulty variant of decode_full_outsim_packet: the magic is not looked at
decode_full_outsim_packet_any_magic(packet) ==
    IF Len(packet) # OUTSIM_FULL_STRUCT_size THEN Raise("struct.error")
    ELSE Ok([packet_id |-> I32(SubSeq(packet, 5, 8)),
             packet_time |-> I32(SubSeq(packet, 9, 12)),
             angular_velocity |-> <<F32(SubSeq(packet, 13, 16)),
                                    F32(SubSeq(packet, 17, 20)),
                                    F32(SubSeq(packet, 21, 24))>>,
             fields_after |-> SubSeq(packet, 25, 272)])

decode_full_outsim_packet(packet) ==
    IF Len(packet) # OUTSIM_FULL_STRUCT_size THEN Raise("struct.error")
    ELSE IF SubSeq(packet, 1, 4) # LFST THEN Raise("AssertionError")
    ELSE Ok([packet_id |-> I32(SubSeq(packet, 5, 8)),
             packet_time |-> I32(SubSeq(packet, 9, 12)),
             angular_velocity |-> <<F32(SubSeq(packet, 13, 16)),
                                    F32(SubSeq(packet, 17, 20)),
                                    F32(SubSeq(packet, 21, 24))>>,
             fields_after |-> SubSeq(packet, 25, 272)])

(***************************************************************************)
(* decode_outgauge_data.  OUTGAUGE_STRUCT ("I4sH2B7f2I3f15sx15sx") is 92   *)
(* bytes; time and car are decoded, the rest kept as bytes.                *)
(***************************************************************************)
OUTGAUGE_STRUCT_size == 92

decode_outgauge_data(data) ==
    IF Len(data) # OUTGAUGE_STRUCT_size THEN Raise("struct.error")
    ELSE Ok([time |-> I32(SubSeq(data, 1, 4)),
             car |-> IF decode(SubSeq(data, 5, 8)).ok
                     THEN decode(SubSeq(data, 5, 8)).val
                     ELSE <<109, 111, 100>>,
             fields_after |-> SubSeq(data, 9, 92)])

(***************************************************************************)
(* bytes.split(sep): the parts between the occurrences of sep, found from  *)
(* the left without overlap.                                               *)
(***************************************************************************)
Occurrences(s, sep) ==
    {k \in 1..(Len(s) - Len(sep) + 1) :
         s[k] = sep[1] /\ SubSeq(s, k, k + Len(sep) - 1) = sep}

SetMin(ks) == CHOOSE k \in ks : \A other \in ks : k <= other

RECURSIVE split_from(_, _, _, _)
split_from(s, sep, start, found) ==
    LET ks == {k \in found : k >= start} IN
    IF ks = {} THEN <<SubSeq(s, start, Len(s))>>
    ELSE <<SubSeq(s, start, SetMin(ks) - 1)>>
             \o split_from(s, sep, SetMin(ks) + Len(sep), found)

split(s, sep) == split_from(s, sep, 1, Occurrences(s, sep))

(***************************************************************************)
(* __aiter__, lines 367-391: what one poll reads from the shared memory.   *)
(* The outsim bytes start at the only "LFST" of the buffer and are cut to  *)
(* 272 bytes.  outsim and outgauge are the results of the two decoders     *)
(* (the second is reached only if the first did not raise).                *)
(***************************************************************************)
MmapSize == 1024

read_parts(timestamp, parts) ==
    IF Len(parts) # 2
    THEN [timestamp |-> timestamp, split_ok |-> FALSE,
          outsim |-> Raise("ValueError"), outgauge |-> Raise("ValueError")]
    ELSE [timestamp |-> timestamp, split_ok |-> TRUE,
          outsim |-> decode_full_outsim_packet(
                         Take(LFST \o parts[2], OUTSIM_FULL_STRUCT_size)),
          outgauge |-> decode_outgauge_data(parts[1])]

read_sample(data) == read_parts(Take(data, 8), split(Drop(data, 8), LFST))

(***************************************************************************)
(* functional.py: calc_derivative on 3-vectors, and the part of            *)
(* process_outsim_data that uses it.                                       *)
(***************************************************************************)
calc_derivative(delta_t, current_value, previous_value) ==
    [k \in 1..3 |-> RatDiv(RatSub(current_value[k], previous_value[k]), delta_t)]

process_outsim_data(delta_t, cone_interface, previous_angular_velocity, raw_outsim_data) ==
    [angular_acceleration |->
         calc_derivative(delta_t, raw_outsim_data.angular_velocity,
                         previous_angular_velocity)]

(***************************************************************************)
(* One iteration of __aiter__'s loop (lines 365-421) on the locals L of    *)
(* the coroutine:                                                          *)
(*   i                          the value count() gives the next iteration *)
(*   delta_ts                   the rolling window                         *)
(*   time_before                                                           *)
(*   previous_angular_velocity                                             *)
(*   last_timestamp             None or Some(8 bytes)                      *)
(* `reading` is read_sample of the buffer polled, time_after the clock at  *)
(* line 385.  The result holds the locals after the iteration, the new     *)
(* self._simulation_time and `out`: None, or Some(the LFSData yielded).    *)
(***************************************************************************)
warm_up_polls == 50
window_kept == 30

\* a faulty variant of lines 397-398: the measured value is kept whatever it is
smoothed_never(i, delta_ts, delta_t) == delta_t

\* lines 397-398
smoothed(i, delta_ts, delta_t) ==
    IF i > warm_up_polls /\ Len(delta_ts) > 0
          /\ RatLess(RatMul(RatInt(3), np_mean(delta_ts)), delta_t)
    THEN np_mean(delta_ts)
    ELSE delta_t

\* line 400: delta_ts[-30:] + [delta_t]
window_push(delta_ts, delta_t) ==
    Append(SubSeq(delta_ts, Len(delta_ts) - Min(window_kept, Len(delta_ts)) + 1,
                  Len(delta_ts)), delta_t)

skipped(L, sim_time) ==
    [ok |-> TRUE, err |-> "", locals |-> [L EXCEPT !.i = @ + 1],
     simulation_time |-> sim_time, out |-> None]

raised(e, L, sim_time) ==
    [ok |-> FALSE, err |-> e, locals |-> L,
     simulation_time |-> sim_time, out |-> None]

\* a faulty variant of lines 408-411: the previous angular velocity is not
\* replaced by the one of this tick
yield_data_stale(L, raw_outsim_data, raw_outgauge_data, time_after, delta_t, lyt) ==
    [ok |-> TRUE, err |-> "",
     locals |-> [i |-> L.i + 1,
                 delta_ts |-> window_push(L.delta_ts, delta_t),
                 time_before |-> time_after,
                 previous_angular_velocity |-> L.previous_angular_velocity,
                 last_timestamp |-> L.last_timestamp],
     simulation_time |-> Some(raw_outsim_data.packet_time),
     out |-> Some([timestamp |-> time_after,
                   delta_t |-> delta_t,
                   raw_outsim_data |-> raw_outsim_data,
                   processed_outsim_data |->
                       process_outsim_data(delta_t, lyt, L.previous_angular_velocity,
                                           raw_outsim_data),
                   raw_outgauge_data |-> raw_outgauge_data])]

\* lines 400-421, with the delta_t of lines 386-398
yield_data(L, raw_outsim_data, raw_outgauge_data, time_after, delta_t, lyt) ==
    [ok |-> TRUE, err |-> "",
     locals |-> [i |-> L.i + 1,
                 delta_ts |-> window_push(L.delta_ts, delta_t),
                 time_before |-> time_after,
                 previous_angular_velocity |-> raw_outsim_data.angular_velocity,
                 last_timestamp |-> L.last_timestamp],
     simulation_time |-> Some(raw_outsim_data.packet_time),
     out |-> Some([timestamp |-> time_after,
                   delta_t |-> delta_t,
                   raw_outsim_data |-> raw_outsim_data,
                   processed_outsim_data |->
                       process_outsim_data(delta_t, lyt, L.previous_angular_velocity,
                                           raw_outsim_data),
                   raw_outgauge_data |-> raw_outgauge_data])]

\* lines 385-421: the sample is new and was split in two
decode_and_yield(L, sim_time, reading, time_after, lyt) ==
    IF ~reading.outsim.ok THEN raised(reading.outsim.err, L, sim_time)
    ELSE IF ~reading.outgauge.ok
    THEN raised(reading.outgauge.err, L, Some(reading.outsim.val.packet_time))
    ELSE IF lyt = None
    THEN raised("AssertionError", [L EXCEPT !.delta_ts =
                    window_push(@, smoothed(L.i, L.delta_ts,
                                            RatInt(time_after - L.time_before)))],
                Some(reading.outsim.val.packet_time))
    ELSE yield_data(L, reading.outsim.val, reading.outgauge.val, time_after,
                    smoothed(L.i, L.delta_ts, RatInt(time_after - L.time_before)),
                    lyt[1])

\* a faulty variant of lines 371-372: the timestamp is not compared
aiter_iteration_every_poll(L, sim_time, reading, time_after, lyt) ==
    IF ~reading.split_ok
    THEN skipped([L EXCEPT !.last_timestamp = Some(reading.timestamp)], sim_time)
    ELSE decode_and_yield([L EXCEPT !.last_timestamp = Some(reading.timestamp)],
                          sim_time, reading, time_after, lyt)

\* lines 369-421
aiter_iteration(L, sim_time, reading, time_after, lyt) ==
    IF Some(reading.timestamp) = L.last_timestamp THEN skipped(L, sim_time)
    ELSE IF ~reading.split_ok
    THEN skipped([L EXCEPT !.last_timestamp = Some(reading.timestamp)], sim_time)
    ELSE decode_and_yield([L EXCEPT !.last_timestamp = Some(reading.timestamp)],
                          sim_time, reading, time_after, lyt)

\* lines 356-362: the locals when the loop is entered at time `started`
aiter_locals(started) ==
    [i |-> 0, delta_ts |-> <<>>, time_before |-> started,
     previous_angular_velocity |-> <<RatInt(0), RatInt(0), RatInt(0)>>,
     last_timestamp |-> None]

(***************************************************************************)
(* The samples the simulator side writes.  The buffer is the 8-byte        *)
(* timestamp of the write, the outgauge packet, the outsim packet and zero *)
(* padding up to the size of the mapping.                                  *)
(*   good        a well-formed outsim packet                               *)
(*   no_magic    an outsim packet that does not start with "LFST"          *)
(*   short       an outsim packet cut to 200 bytes                         *)
(*   late_magic  an outsim packet cut to 100 bytes at the end of the       *)
(*               buffer                                                    *)
(***************************************************************************)
MaxEmitted == 52
MaxSkipped == 2
MaxPolls == 1
LongSleep == 4

U32Bytes(n) ==
    <<n % 256, (n \div 256) % 256, (n \div 65536) % 256, (n \div 16777216) % 256>>

\* 0.0, 1.0 and -2.0 as struct's "f"
F32Bytes == << <<0, 0, 0, 0>>, <<0, 0, 128, 63>>, <<0, 0, 0, 192>> >>

OutsimPacket(magic, packet_time, w) ==
    magic \o U32Bytes(0) \o U32Bytes(packet_time) \o w \o Zeros(8) \o Zeros(248)

\* car "XFG"
OutgaugePacket(time) == U32Bytes(time) \o <<88, 70, 71, 0>> \o Zeros(84)

SampleKinds == {"good", "no_magic", "short", "late_magic"}

SampleBody(s) ==
    CASE s.kind = "good" ->
             OutgaugePacket(10 * s.stamp)
                 \o OutsimPacket(LFST, 10 * s.stamp, F32Bytes[s.omega])
      [] s.kind = "no_magic" ->
             OutgaugePacket(10 * s.stamp)
                 \o OutsimPacket(<<76, 70, 83, 88>>, 10 * s.stamp, F32Bytes[s.omega])
      [] s.kind = "short" ->
             OutgaugePacket(10 * s.stamp)
                 \o Take(OutsimPacket(LFST, 10 * s.stamp, F32Bytes[s.omega]), 200)
      [] s.kind = "late_magic" ->
             Zeros(MmapSize - 8 - 100)
                 \o Take(OutsimPacket(LFST, 10 * s.stamp, F32Bytes[s.omega]), 100)
      [] OTHER -> <<>>

MmapBytes(s) == Pad(U32Bytes(s.stamp) \o Zeros(4) \o SampleBody(s), MmapSize)

Samples ==
    {BlankSample}
        \cup [kind : SampleKinds, stamp : 1..(MaxEmitted + MaxPolls), omega : 1..3]

\* self._mmap.read(1024) and lines 369-391 on every sample
SampleReading == [s \in Samples |-> read_sample(MmapBytes(s))]

(***************************************************************************)
(* The tick loop as a state: one write of the simulator side, one poll of  *)
(* __aiter__ (sleep, read, one iteration).  What is remembered of a        *)
(* yielded LFSData is its timestamp, its delta_t and the angular values.   *)
(***************************************************************************)
Emitted(data) ==
    [timestamp |-> data.timestamp,
     delta_t |-> data.delta_t,
     packet_time |-> data.raw_outsim_data.packet_time,
     angular_velocity |-> data.raw_outsim_data.angular_velocity,
     angular_acceleration |-> data.processed_outsim_data.angular_acceleration]

Entered ==
    [aiter_pc |-> "polling", aiter |-> aiter_locals(0), clock |-> 0,
     mmap_data |-> BlankSample, simulation_time |-> None, yielded |-> <<>>]

Written(st, kind, w) ==
    [st EXCEPT !.mmap_data = [kind |-> kind, stamp |-> st.mmap_data.stamp + 1,
                              omega |-> w]]

AfterIteration(st, res, time_after) ==
    [aiter_pc |-> IF res.ok THEN "polling" ELSE "raised",
     aiter |-> res.locals,
     clock |-> time_after,
     mmap_data |-> st.mmap_data,
     simulation_time |-> res.simulation_time,
     yielded |-> IF res.out = None THEN st.yielded
                 ELSE Append(st.yielded, Emitted(res.out[1]))]

\* lines 366-421: a sleep that lasts d, then one iteration
Polled(st, d, lyt) ==
    AfterIteration(st,
                   aiter_iteration(st.aiter, st.simulation_time,
                                   SampleReading[st.mmap_data], st.clock + d, lyt),
                   st.clock + d)

TickIs(st) ==
    /\ aiter_pc = st.aiter_pc
    /\ aiter = st.aiter
    /\ clock = st.clock
    /\ mmap_data = st.mmap_data
    /\ simulation_time = st.simulation_time
    /\ yielded = st.yielded

TickNow ==
    [aiter_pc |-> aiter_pc, aiter |-> aiter, clock |-> clock,
     mmap_data |-> mmap_data, simulation_time |-> simulation_time,
     yielded |-> yielded]

InitTick ==
    /\ insim_pc = "reading"
    /\ connection_attempt = 1
    /\ buffer = <<>>
    /\ wire = <<>>
    /\ eof = FALSE
    /\ sent = 0
    /\ closes = 0
    /\ error = ""
    /\ written = <<>>
    /\ active_layout_name = Some(NameA)
    /\ lyt_interface = Some(LoadedFrom(NameA))
    /\ insim_state = None
    /\ tasks = <<>>
    /\ handled = <<>>
    /\ reloads = <<>>
    /\ received = <<>>
    /\ partial_seen = FALSE
    /\ call = None
    /\ enter_pc = "entered"
    /\ arg = None
    /\ ret = None
    /\ TickIs(Entered)
    /\ mmap_written = FALSE
    /\ polls = 0
    /\ quiet_polls = 0
    /\ ControlIdle
    /\ SendIdle

(***************************************************************************)
(* The runs explored: a steady start of up to MaxEmitted polls that each   *)
(* find a new good sample after one sleep, then up to MaxSkipped polls     *)
(* that find nothing new, then MaxPolls polls of any kind.                 *)
(***************************************************************************)
SteadyPoll(d) ==
    /\ d = 1
    /\ polls = 0
    /\ quiet_polls = 0
    /\ mmap_written
    /\ mmap_data.kind = "good"
    /\ mmap_data.omega = (mmap_data.stamp % 3) + 1
    /\ aiter.i < MaxEmitted

QuietPoll(d) ==
    /\ d = 1
    /\ polls = 0
    /\ ~mmap_written
    /\ quiet_polls < MaxSkipped

\* the simulator side puts a new sample in the shared memory
WriteSample ==
    /\ aiter_pc = "polling"
    /\ ~mmap_written
    /\ polls < MaxPolls
    /\ \E kind \in SampleKinds, w \in 1..3 :
           /\ kind # "good" => w = 1
           /\ mmap_data' = Written(TickNow, kind, w).mmap_data
    /\ mmap_written' = TRUE
    /\ UNCHANGED <<aiter_pc, aiter, clock, simulation_time, yielded, polls,
                   quiet_polls>>
    /\ UNCHANGED <<insim_pc, connection_attempt, buffer, error, received,
                   partial_seen, call, objvars, envvars, entervars, methodvars,
                   ctlvars, sendvars>>

\* one iteration of __aiter__'s loop
Poll ==
    /\ aiter_pc = "polling"
    /\ \E d \in {1, LongSleep} :
           /\ SteadyPoll(d) \/ QuietPoll(d) \/ polls < MaxPolls
           /\ polls' = IF SteadyPoll(d) \/ QuietPoll(d) THEN polls ELSE polls + 1
           /\ quiet_polls' = IF QuietPoll(d) THEN quiet_polls + 1 ELSE quiet_polls
           /\ LET st == Polled(TickNow, d, lyt_interface) IN
              /\ aiter_pc' = st.aiter_pc
              /\ aiter' = st.aiter
              /\ clock' = st.clock
              /\ simulation_time' = st.simulation_time
              /\ yielded' = st.yielded
    /\ mmap_written' = FALSE
    /\ UNCHANGED mmap_data
    /\ UNCHANGED <<insim_pc, connection_attempt, buffer, error, received,
                   partial_seen, call, objvars, envvars, entervars, methodvars,
                   ctlvars, sendvars>>

NextTick == WriteSample \/ Poll

SpecTick == InitTick /\ [][NextTick]_vars

(***************************************************************************)
(* Vocabulary of the tick-loop claims.  A step emits when it yields one    *)
(* more LFSData; Measured is the wall-clock time since the time reference  *)
(* the loop held before the step, WindowBefore the rolling window before   *)
(* the step.                                                               *)
(***************************************************************************)
IsPoll == aiter'.i = aiter.i + 1 \/ aiter_pc' = "raised"
EmitsNow == Len(yielded') = Len(yielded) + 1
Measured == RatInt(clock' - aiter.time_before)
WindowBefore == aiter.delta_ts
LastYield == yielded'[Len(yielded')]
WarmedUp == aiter.i > warm_up_polls

C14_WindowAtMost30 == aiter_pc # "idle" => Len(aiter.delta_ts) <= 30

\* the wall-clock time between the k-th yielded snapshot and the one before
\* it (the entry of the loop for the first)
MeasuredAt(k) ==
    RatInt(yielded[k].timestamp
               - (IF k = 1 THEN Entered.clock ELSE yielded[k - 1].timestamp))

\* C15: none of the first 50 emitted snapshots has its measured delta-time
\* replaced by the rolling mean, whatever the mix of emitted ticks and
\* skipped polls.
C15_First50NotSubstituted ==
    \A k \in 1..Len(yielded) : k <= 50 => yielded[k].delta_t = MeasuredAt(k)

PreviousEmittedVelocity ==
    IF Len(yielded) = 0 THEN <<RatInt(0), RatInt(0), RatInt(0)>>
    ELSE yielded[Len(yielded)].angular_velocity

\* C17: for every emitted tick the angular acceleration is (angular velocity
\* of this tick - angular velocity of the immediately preceding emitted tick)
\* / delta_t, the zero vector standing for the tick before the first, however
\* many polls were skipped in between.
C17_AngularAcceleration ==
    [][EmitsNow =>
          LastYield.angular_acceleration =
              [k \in 1..3 |->
                   RatDiv(RatSub(LastYield.angular_velocity[k],
                                 PreviousEmittedVelocity[k]),
                          LastYield.delta_t)]]_vars

\* two ticks with different angular velocities were emitted with skipped
\* polls between them
C17_Witness ==
    /\ Len(yielded) >= 2
    /\ yielded[Len(yielded)].angular_velocity
           # yielded[Len(yielded) - 1].angular_velocity
    /\ quiet_polls > 0
    /\ yielded[Len(yielded)].timestamp - yielded[Len(yielded) - 1].timestamp
           > quiet_polls

\* the step polls a sample written since the last poll
PollsNew(kinds) == IsPoll /\ mmap_written /\ mmap_data.kind \in kinds

\* C18: a poll that finds a malformed vehicle-dynamics packet (wrong magic or
\* wrong length) emits no snapshot, leaves the previous angular velocity, the
\* time reference and the delta-time window unchanged and does not end the
\* loop, and a poll that then finds a well-formed packet emits a snapshot.
C18_MalformedPacketSkipped ==
    [][/\ PollsNew({"no_magic", "short", "late_magic"}) =>
              /\ yielded' = yielded
              /\ aiter'.previous_angular_velocity = aiter.previous_angular_velocity
              /\ aiter'.time_before = aiter.time_before
              /\ aiter'.delta_ts = aiter.delta_ts
              /\ aiter_pc' = "polling"
       /\ PollsNew({"good"}) => EmitsNow]_vars

(***************************************************************************)
(* A function applied on its own: the object is as constructed, `arg` is   *)
(* the argument and `ret` becomes how the call ended.                      *)
(***************************************************************************)
MethodInit(args) ==
    /\ insim_pc = "connecting"
    /\ connection_attempt = 1
    /\ buffer = <<>>
    /\ wire = <<>>
    /\ eof = FALSE
    /\ sent = 0
    /\ closes = 0
    /\ error = ""
    /\ written = <<>>
    /\ active_layout_name = None
    /\ lyt_interface = None
    /\ insim_state = None
    /\ tasks = <<>>
    /\ handled = <<>>
    /\ reloads = <<>>
    /\ received = <<>>
    /\ partial_seen = FALSE
    /\ call = None
    /\ enter_pc = "start"
    /\ arg \in args
    /\ ret = None
    /\ TickIdle
    /\ ControlIdle
    /\ SendIdle

MethodReturns(result) ==
    /\ ret = None
    /\ ret' = Some(result)
    /\ UNCHANGED <<insim_pc, connection_attempt, buffer, error, received,
                   partial_seen, call, arg, objvars, envvars, entervars, tickvars, ctlvars, sendvars>>

(***************************************************************************)
(* decode_full_outsim_packet on buffers of 272 bytes with sixteen          *)
(* different first four bytes, and on buffers of other lengths.            *)
(***************************************************************************)
Magics == {<<a, b, c, d>> : a \in {76, 0}, b \in {70, 76}, c \in {83, 255}, d \in {84, 88}}

OutsimBuffers ==
    {OutsimPacket(m, t, F32Bytes[w]) : m \in Magics, t \in {0, 1000}, w \in 1..3}
        \cup {<<>>, Take(OutsimPacket(LFST, 0, F32Bytes[1]), 271),
              OutsimPacket(LFST, 0, F32Bytes[1]) \o <<0>>,
              OutsimPacket(<<0, 0, 0, 0>>, 0, F32Bytes[1]) \o <<0>>}

InitDecode == MethodInit(OutsimBuffers)

Decode == MethodReturns(decode_full_outsim_packet(arg))

NextDecode == Decode

SpecDecode == InitDecode /\ [][NextDecode]_vars

\* C19: decode_full_outsim_packet applied to a buffer of the correct length
\* whose first 4 bytes are not "LFST" fails with an error and returns no
\* RawOutsimData.
C19_WrongMagicFails ==
    (ret # None /\ Len(arg) = OUTSIM_FULL_STRUCT_size /\ SubSeq(arg, 1, 4) # LFST)
        => (~ret[1].ok /\ ret[1].err # "" /\ ret[1].val = <<>>)

\* the decoder was applied to 272 bytes that start with "LFSX"
C19_Witness ==
    /\ ret # None
    /\ Len(arg) = OUTSIM_FULL_STRUCT_size
    /\ SubSeq(arg, 1, 4) = <<76, 70, 83, 88>>
    /\ ~ret[1].ok

(***************************************************************************)
(* load_lyt_file on the content of a regular file with suffix .lyt: every  *)
(* combination of three magics, three versions, four revisions and four    *)
(* bodies, and a file shorter than a header.                               *)
(***************************************************************************)
LytMagics == {LFSLYT, <<76, 70, 83, 76, 89, 85>>, <<88, 70, 83, 76, 89, 84>>}

LytBodies ==
    {<<>>, LytBlock(16, 32, 20), LytBlock(16, 32, 20) \o LytBlock(0, 0, 1),
     Take(LytBlock(16, 32, 20), 5)}

LytContents ==
    {m \o Drop(LytHeader(v, r, 0), 6) \o body :
         m \in LytMagics, v \in {0, 1, 255}, r \in {0, 252, 253, 255},
         body \in LytBodies}
        \cup {FileF}

InitLoadLyt == MethodInit(LytContents)

LoadLyt == MethodReturns(load_lyt_file(Some(arg)))

NextLoadLyt == LoadLyt

SpecLoadLyt == InitLoadLyt /\ [][NextLoadLyt]_vars

HeaderRejected(file) ==
    SubSeq(file, 1, 6) # LFSLYT \/ file[7] > 0 \/ file[8] > 252

\* C20: load_lyt_file fails when the header's magic is not "LFSLYT", or its
\* version byte is greater than 0, or its revision byte is greater than 252,
\* and otherwise, with a body that is a whole number of 8-byte blocks,
\* succeeds and returns one coordinate list per cone type.
C20_LoadLytFile ==
    (ret # None /\ Len(arg) >= HEADER_STRUCT_size) =>
        /\ HeaderRejected(arg) => ~ret[1].ok
        /\ (~HeaderRejected(arg)
               /\ (Len(arg) - HEADER_STRUCT_size) % BLOCK_STRUCT_size = 0)
              => (ret[1].ok /\ Len(ret[1].val) = Len(ConeTypes))

\* a file with the right magic, version 0, revision 253 and one cone block
\* was refused
C20_Witness ==
    /\ ret # None
    /\ Len(arg) = HEADER_STRUCT_size + BLOCK_STRUCT_size
    /\ SubSeq(arg, 1, 6) = LFSLYT
    /\ arg[7] = 0
    /\ arg[8] = 253
    /\ ~ret[1].ok

(***************************************************************************)
(* math_utils: points are pairs of exact rationals; an angle is carried as *)
(* the pair <<cos, sin>> of its cosine and sine.  The directions drawn     *)
(* below have an integer length, so both are rational.                     *)
(***************************************************************************)
RatNeg(x) == <<-x[1], x[2]>>

PointSub(p, q) == <<RatSub(p[1], q[1]), RatSub(p[2], q[2])>>

PointAdd(p, q) == <<RatAdd(p[1], q[1]), RatAdd(p[2], q[2])>>

\* np.dot(points, ((cos, -sin), (sin, cos)).T)
rotate(points, theta) ==
    [i \in 1..Len(points) |->
        <<RatSub(RatMul(points[i][1], theta[1]), RatMul(points[i][2], theta[2])),
          RatAdd(RatMul(points[i][1], theta[2]), RatMul(points[i][2], theta[1]))>>]

\* the square root of a rational that is the square of a rational
RatSqrt(x) ==
    <<CHOOSE n \in 0..x[1] : n * n = x[1], CHOOSE d \in 1..x[2] : d * d = x[2]>>

\* np.linalg.norm of a vector whose length is rational
RatNorm(d) == RatSqrt(RatAdd(RatMul(d[1], d[1]), RatMul(d[2], d[2])))

P2(x, y) == <<RatInt(x), RatInt(y)>>

\* -np.arctan2(*car_dir[::-1]); arctan2(0, 0) is 0
neg_arctan2(car_dir) ==
    IF car_dir = P2(0, 0) THEN <<RatInt(1), RatInt(0)>>
    ELSE <<RatDiv(car_dir[1], RatNorm(car_dir)), RatDiv(RatNeg(car_dir[2]), RatNorm(car_dir))>>

trace_to_local_space(car_pos, car_dir, trace) ==
    rotate([i \in 1..Len(trace) |-> PointSub(trace[i], car_pos)], neg_arctan2(car_dir))

trace_to_global_space(car_pos, car_dir, trace) ==
    LET rotated == rotate(trace, neg_arctan2(car_dir))
    IN  [i \in 1..Len(rotated) |-> PointAdd(rotated[i], car_pos)]

(***************************************************************************)
(* The two frame conversions applied one after the other, for vehicles at  *)
(* three positions heading in nine directions and traces of zero, one or   *)
(* two points.                                                             *)
(***************************************************************************)
CarPositions == {<<RatInt(0), RatInt(0)>>, <<RatInt(1), RatInt(-2)>>, <<Rat(1, 2), RatInt(3)>>}

CarDirections ==
    {P2(1, 0), P2(0, 1), P2(-1, 0), P2(0, -1), P2(3, 4), P2(-4, 3), P2(5, -12), P2(2, 0),
     P2(0, 0)}

TracePoints ==
    {<<RatInt(1), RatInt(0)>>, <<RatInt(0), RatInt(1)>>, <<RatInt(2), RatInt(3)>>,
     <<RatInt(-1), Rat(1, 2)>>}

Traces ==
    {<<>>} \cup {<<p>> : p \in TracePoints}
        \cup {<<p, <<RatInt(2), RatInt(3)>> >> : p \in TracePoints}

InitFrames ==
    MethodInit([car_pos : CarPositions, car_dir : CarDirections, trace : Traces])

LocalThenGlobal ==
    MethodReturns(trace_to_global_space(arg.car_pos, arg.car_dir,
                      trace_to_local_space(arg.car_pos, arg.car_dir, arg.trace)))

NextFrames == LocalThenGlobal

SpecFrames == InitFrames /\ [][NextFrames]_vars

\* C26: converting a trace to the vehicle's frame and back with the same
\* position and direction returns every point of the trace unchanged.
C26_LocalGlobalRoundTrip == ret # None => ret[1] = arg.trace

(***************************************************************************)
(* Detection.  An angle in radians is carried as the exact rational        *)
(* multiple of pi it is; CosPi gives the cosine of such an angle as        *)
(* <<sign, square>> for the multiples whose squared cosine is rational.    *)
(***************************************************************************)
vec_dot(a, b) == RatAdd(RatMul(a[1], b[1]), RatMul(a[2], b[2]))

norm_sq(a) == vec_dot(a, a)

RatLeq(x, y) == ~RatLess(y, x)

deg2rad(degrees) == Rat(degrees, 180)

CosPi(x) ==
    CASE x = <<1, 6>> -> <<1, <<3, 4>> >>
      [] x = <<1, 4>> -> <<1, <<1, 2>> >>
      [] x = <<1, 3>> -> <<1, <<1, 4>> >>
      [] x = <<1, 2>> -> <<0, <<0, 1>> >>
      [] x = <<2, 3>> -> <<-1, <<1, 4>> >>
      [] x = <<3, 4>> -> <<-1, <<1, 2>> >>
      [] x = <<5, 6>> -> <<-1, <<3, 4>> >>
      [] x = <<1, 1>> -> <<-1, <<1, 1>> >>

\* dot / sqrt(norms) > c, where c has sign c[1] and square c[2]
cos_theta_greater(dot, norms, c) ==
    LET dot_sq == RatMul(dot, dot)
        c_sq   == RatMul(c[2], norms)
    IN  IF ~RatLess(dot, RatInt(0))
        THEN c[1] < 0 \/ RatLess(c_sq, dot_sq)
        ELSE c[1] < 0 /\ RatLess(dot_sq, c_sq)

\* -bound < vec_angle_between(vecs1, vecs2) < bound, the angle being
\* arccos(dot / (norm * norm)) in [0, pi], or nan when a vector is zero
mask_angles_flipped(vecs1, vecs2, bound) ==
    /\ norm_sq(vecs1) # RatInt(0)
    /\ norm_sq(vecs2) # RatInt(0)
    /\ RatLess(RatInt(0), bound)
    /\ RatLeq(bound, RatInt(1))
    /\ ~cos_theta_greater(vec_dot(vecs1, vecs2), RatMul(norm_sq(vecs1), norm_sq(vecs2)),
                          CosPi(bound))

mask_angles(vecs1, vecs2, bound) ==
    /\ norm_sq(vecs1) # RatInt(0)
    /\ norm_sq(vecs2) # RatInt(0)
    /\ RatLess(RatInt(0), bound)
    /\ \/ RatLess(RatInt(1), bound)
       \/ cos_theta_greater(vec_dot(vecs1, vecs2), RatMul(norm_sq(vecs1), norm_sq(vecs2)),
                            CosPi(bound))

\* np.linalg.norm(car_pos - cone) < sight_range
dist_mask_closed(car_pos, cone, sight_range) ==
    /\ RatLess(RatInt(0), sight_range)
    /\ RatLeq(norm_sq(PointSub(car_pos, cone)), RatMul(sight_range, sight_range))

dist_mask(car_pos, cone, sight_range) ==
    /\ RatLess(RatInt(0), sight_range)
    /\ RatLess(norm_sq(PointSub(car_pos, cone)), RatMul(sight_range, sight_range))

cones_in_range_and_pov_mask(car_pos, car_dir, sight_range, sight_angle, colored_cones) ==
    [i \in 1..Len(colored_cones) |->
        /\ dist_mask(car_pos, colored_cones[i], sight_range)
        /\ mask_angles(car_dir, PointSub(colored_cones[i], car_pos),
                       RatDiv(sight_angle, RatInt(2)))]

RECURSIVE Masked(_, _)
Masked(xs, mask) ==
    IF xs = <<>> THEN <<>>
    ELSE (IF mask[1] THEN <<xs[1]>> ELSE <<>>) \o Masked(Tail(xs), Tail(mask))

BasicConicalDetectionModel(detection_range, detection_angle) ==
    [detection_range |-> detection_range, detection_angle |-> deg2rad(detection_angle)]

detect_cones(self, vehicle_position, vehicle_direction, cone_positions, cones_types) ==
    LET visible_mask == cones_in_range_and_pov_mask(vehicle_position, vehicle_direction,
                            self.detection_range, self.detection_angle, cone_positions)
    IN  <<Masked(cone_positions, visible_mask), Masked(cones_types, visible_mask)>>

(***************************************************************************)
(* Two detection models applied to the same vehicle pose and cones.        *)
(***************************************************************************)
VehiclePositions == {P2(0, 0), P2(1, 1)}

VehicleDirections == {P2(1, 0), P2(0, 2), P2(1, 1), P2(-1, -1), P2(-3, 0)}

ConePositions == <<P2(2, 0), P2(1, 1), P2(0, 2), P2(-1, 0), P2(0, 0), P2(3, 1), P2(2, 2)>>

ConesTypes == <<1, 2, 1, 2, 0, 4, 3>>

DetectionRanges == {1, 2, 3}

DetectionAngles == {60, 90, 120, 180, 360}

InitDetect ==
    MethodInit([vehicle_position : VehiclePositions,
                vehicle_direction : VehicleDirections,
                range1 : DetectionRanges, angle1 : DetectionAngles,
                range2 : DetectionRanges, angle2 : DetectionAngles])

Detect ==
    MethodReturns(
        <<detect_cones(BasicConicalDetectionModel(RatInt(arg.range1), arg.angle1),
                       arg.vehicle_position, arg.vehicle_direction, ConePositions, ConesTypes),
          detect_cones(BasicConicalDetectionModel(RatInt(arg.range2), arg.angle2),
                       arg.vehicle_position, arg.vehicle_direction, ConePositions, ConesTypes)>>)

NextDetect == Detect

SpecDetect == InitDetect /\ [][NextDetect]_vars

\* The cone of vision, stated with the tangent of the angle off the heading:
\* cross and dot products of the heading d and the vector v to the cone.
Cross(d, v) == RatSub(RatMul(d[1], v[2]), RatMul(d[2], v[1]))

Sq(x) == RatMul(x, x)

OffHeadingLessThan(d, v, half_degrees) ==
    LET dot == vec_dot(d, v)
        ahead == RatLess(RatInt(0), dot)
    IN  /\ v # P2(0, 0)
        /\ CASE half_degrees = 30 -> ahead /\ RatLess(RatMul(RatInt(3), Sq(Cross(d, v))), Sq(dot))
             [] half_degrees = 45 -> ahead /\ RatLess(Sq(Cross(d, v)), Sq(dot))
             [] half_degrees = 60 -> ahead /\ RatLess(Sq(Cross(d, v)), RatMul(RatInt(3), Sq(dot)))
             [] half_degrees = 90 -> ahead
             [] half_degrees = 180 -> ahead \/ Cross(d, v) # RatInt(0)

OffHeadingExactly(d, v, half_degrees) ==
    /\ v # P2(0, 0)
    /\ ~OffHeadingLessThan(d, v, half_degrees)
    /\ CASE half_degrees = 30 -> RatMul(RatInt(3), Sq(Cross(d, v))) = Sq(vec_dot(d, v))
         [] half_degrees = 45 -> Sq(Cross(d, v)) = Sq(vec_dot(d, v))
         [] half_degrees = 60 -> Sq(Cross(d, v)) = RatMul(RatInt(3), Sq(vec_dot(d, v)))
         [] half_degrees = 90 -> vec_dot(d, v) = RatInt(0)
         [] half_degrees = 180 -> TRUE

DistanceSq(p, q) == RatAdd(Sq(RatSub(p[1], q[1])), Sq(RatSub(p[2], q[2])))

InRangeAndAngle(i, range, angle) ==
    /\ RatLess(DistanceSq(arg.vehicle_position, ConePositions[i]), RatInt(range * range))
    /\ OffHeadingLessThan(arg.vehicle_direction,
                          PointSub(ConePositions[i], arg.vehicle_position), angle \div 2)

Reported(i, k) == \E j \in 1..Len(ret[1][k][1]) : ret[1][k][1][j] = ConePositions[i]

\* C23: the conical model reports a cone exactly when its distance from the
\* vehicle is below the range and its angle off the heading is below half the
\* detection angle; a cone exactly at the range or exactly at half the angle
\* is not reported.
C23_VisibleIffInsideCone ==
    ret # None =>
        \A i \in 1..Len(ConePositions) :
            /\ Reported(i, 1) <=> InRangeAndAngle(i, arg.range1, arg.angle1)
            /\ Reported(i, 2) <=> InRangeAndAngle(i, arg.range2, arg.angle2)

C23_Witness ==
    /\ ret # None
    /\ \E i, j, k \in 1..Len(ConePositions) :
        LET v(n) == PointSub(ConePositions[n], arg.vehicle_position)
        IN  /\ Reported(i, 1)
            /\ DistanceSq(arg.vehicle_position, ConePositions[j]) = RatInt(arg.range1 * arg.range1)
            /\ OffHeadingLessThan(arg.vehicle_direction, v(j), arg.angle1 \div 2)
            /\ ~Reported(j, 1)
            /\ RatLess(DistanceSq(arg.vehicle_position, ConePositions[k]),
                       RatInt(arg.range1 * arg.range1))
            /\ OffHeadingExactly(arg.vehicle_direction, v(k), arg.angle1 \div 2)
            /\ arg.angle1 < 360
            /\ ~Reported(k, 1)

\* C24: a model with a range and an angle that are not larger detects a
\* subset of what the other model detects, for the same vehicle pose and cones.
C24_DetectionMonotone ==
    (ret # None /\ arg.range1 <= arg.range2 /\ arg.angle1 <= arg.angle2) =>
        /\ \A i \in 1..Len(ConePositions) : Reported(i, 1) => Reported(i, 2)
        /\ \A j \in 1..Len(ret[1][1][1]) :
               \E n \in 1..Len(ret[1][2][1]) :
                   /\ ret[1][2][1][n] = ret[1][1][1][j]
                   /\ ret[1][2][2][n] = ret[1][1][2][j]

C24_Witness ==
    /\ ret # None
    /\ arg.range1 < arg.range2
    /\ arg.angle1 < arg.angle2
    /\ Len(ret[1][1][1]) > 0
    /\ Len(ret[1][1][1]) < Len(ret[1][2][1])

(***************************************************************************)
(* LYTInterface.get_visible_cones.  `self` holds all_cones_per_type,       *)
(* sight_range and sight_angle (radians, as a multiple of pi).             *)
(***************************************************************************)
\* @dataclass ObservedCone: x, y, cone_type
ObservedCone_fields == {"x", "y", "cone_type"}

\* a call with keyword arguments; a keyword that is no field is a TypeError
ObservedCone(keywords) ==
    IF DOMAIN keywords # ObservedCone_fields THEN Raise("TypeError") ELSE Ok(keywords)

create_observed_cone_sequence_from_arrays(positions, indices, cone_type) ==
    LET made == [i \in 1..Len(positions) |->
                    ObservedCone([x |-> positions[i][1], y |-> positions[i][2],
                                  cone_id |-> indices[i], cone_type |-> cone_type])]
    IN  IF \E i \in 1..Len(made) : ~made[i].ok THEN Raise("TypeError")
        ELSE Ok([i \in 1..Len(made) |-> made[i].val])

\* np.nonzero(mask)[0]: the positions, counted from 0, where the mask holds
RECURSIVE nonzero(_, _)
nonzero(mask, from) ==
    IF mask = <<>> THEN <<>>
    ELSE (IF mask[1] THEN <<from>> ELSE <<>>) \o nonzero(Tail(mask), from + 1)

gather_cone_observation_single_trace(self, cone_type, car_pos, car_dir, trace) ==
    IF Len(trace) = 0 THEN Ok(<<>>)
    ELSE LET visible_mask == cones_in_range_and_pov_mask(car_pos, car_dir, self.sight_range,
                                 self.sight_angle, trace)
         IN  IF \A i \in 1..Len(visible_mask) : ~visible_mask[i] THEN Ok(<<>>)
             ELSE create_observed_cone_sequence_from_arrays(
                      trace_to_local_space(car_pos, car_dir, Masked(trace, visible_mask)),
                      nonzero(visible_mask, 0), cone_type)

RECURSIVE chain_from(_, _, _, _)
chain_from(self, car_pos, car_dir, t) ==
    IF t > Len(ConeTypes) \/ t > Len(self.all_cones_per_type) THEN Ok(<<>>)
    ELSE LET first == gather_cone_observation_single_trace(self, ConeTypes[t], car_pos,
                          car_dir, self.all_cones_per_type[t])
             rest  == chain_from(self, car_pos, car_dir, t + 1)
         IN  IF ~first.ok THEN first
             ELSE IF ~rest.ok THEN rest
             ELSE Ok(first.val \o rest.val)

get_visible_cones(self, car_pos, car_dir) == chain_from(self, car_pos, car_dir, 1)

(***************************************************************************)
(* Observations from three layouts: one without objects, one with a cone   *)
(* of every type and two of some, one with blue cones only.                *)
(***************************************************************************)
LayoutEmpty == LytHeader(0, 251, 0)

LayoutAllTypes ==
    LytHeader(0, 251, 8) \o LytBlock(32, 0, 29) \o LytBlock(16, 16, 23) \o LytBlock(0, 32, 30)
        \o LytBlock(48, 16, 27) \o LytBlock(32, 32, 20) \o LytBlock(16, 0, 25)
        \o LytBlock(64, 0, 24) \o LytBlock(8, 8, 0)

LayoutBlue == LytHeader(0, 251, 2) \o LytBlock(16, 16, 23) \o LytBlock(32, 0, 24)

ObservedLayouts == {LayoutEmpty, LayoutAllTypes, LayoutBlue}

SightAngles == {Rat(1, 2), RatInt(1), RatInt(2)}

InitObserve ==
    MethodInit([layout : ObservedLayouts, car_pos : {P2(0, 0), P2(1, 1), P2(9, 9)},
                car_dir : {P2(1, 0), P2(0, 1), P2(-1, 0), P2(3, 4)},
                sight_range : {1, 2, 5}, sight_angle : SightAngles])

ObservingInterface ==
    [all_cones_per_type |-> load_lyt_file(Some(arg.layout)).val,
     sight_range |-> RatInt(arg.sight_range), sight_angle |-> arg.sight_angle]

Observe == MethodReturns(get_visible_cones(ObservingInterface, arg.car_pos, arg.car_dir))

NextObserve == Observe

SpecObserve == InitObserve /\ [][NextObserve]_vars

\* the cones of type t the claim calls visible, by their index, counted
\* from 0, in that type's list: ascending
RECURSIVE VisibleIds(_, _)
VisibleIds(t, from) ==
    LET trace == ObservingInterface.all_cones_per_type[t]
        v == PointSub(trace[from + 1], arg.car_pos)
        seen == /\ RatLess(DistanceSq(arg.car_pos, trace[from + 1]),
                           RatInt(arg.sight_range * arg.sight_range))
                /\ v # P2(0, 0)
                /\ CASE arg.sight_angle = Rat(1, 2) ->
                            /\ RatLess(RatInt(0), vec_dot(arg.car_dir, v))
                            /\ RatLess(Sq(Cross(arg.car_dir, v)), Sq(vec_dot(arg.car_dir, v)))
                     [] arg.sight_angle = RatInt(1) -> RatLess(RatInt(0), vec_dot(arg.car_dir, v))
                     [] arg.sight_angle = RatInt(2) ->
                            \/ RatLess(RatInt(0), vec_dot(arg.car_dir, v))
                            \/ Cross(arg.car_dir, v) # RatInt(0)
    IN  IF from >= Len(trace) THEN <<>>
        ELSE (IF seen THEN << <<ConeTypes[t], from>> >> ELSE <<>>) \o VisibleIds(t, from + 1)

ExpectedObservations ==
    VisibleIds(1, 0) \o VisibleIds(2, 0) \o VisibleIds(3, 0) \o VisibleIds(4, 0)
        \o VisibleIds(5, 0)

\* C25: get_visible_cones returns the visible cones grouped by type in the
\* order UNKNOWN, YELLOW, BLUE, ORANGE_SMALL, ORANGE_BIG, within a type by
\* ascending index in that type's list, and each observation carries that
\* index as its cone id.
C25_GroupedWithStableIds ==
    ret # None =>
        /\ ret[1].ok
        /\ Len(ret[1].val) = Len(ExpectedObservations)
        /\ \A i \in 1..Len(ret[1].val) :
               /\ "cone_id" \in DOMAIN ret[1].val[i]
               /\ <<ret[1].val[i].cone_type, ret[1].val[i].cone_id>> = ExpectedObservations[i]

(***************************************************************************)
(* The driving command sent to the joystick relay, and the relay's         *)
(* decoder.  struct pads a native format so that every field is aligned.   *)
(***************************************************************************)
\* struct's "f" for a value that is zero or exact in a single between 2^-8 and 2^8
pack_f(x) ==
    IF x[1] = 0 THEN <<0, 0, 0, 0>>
    ELSE LET magnitude == <<Abs(x[1]), x[2]>>
             e == CHOOSE k \in 0..16 :
                      /\ ~RatLess(magnitude, Rat(Pow2(k), 256))
                      /\ RatLess(magnitude, Rat(Pow2(k + 1), 256))
             fraction == RatSub(RatDiv(magnitude, Rat(Pow2(e), 256)), RatInt(1))
             mantissa == fraction[1] * (8388608 \div fraction[2])
             exponent == e - 8 + 127
         IN  <<mantissa % 256, (mantissa \div 256) % 256,
               (exponent % 2) * 128 + mantissa \div 65536,
               (IF x[1] < 0 THEN 128 ELSE 0) + exponent \div 2>>

\* struct's "i"
pack_i(n) ==
    IF n >= 0 THEN U32Bytes(n)
    ELSE LET low == U32Bytes((n + 2147483647) + 1)
         IN  <<low[1], low[2], low[3], low[4] + 128>>

unpack_i(b) ==
    IF b[4] < 128 THEN I32(b)
    ELSE (I32(<<b[1], b[2], b[3], b[4] - 128>>) - 2147483647) - 1

\* struct.pack("4fif", ...): 24 bytes
send_outputs(steering, throttle, brake, clutch, gear_delta, time_) ==
    pack_f(steering) \o pack_f(throttle) \o pack_f(brake) \o pack_f(clutch)
        \o pack_i(gear_delta) \o pack_f(time_)

\* struct.calcsize("4fid3f"): four bytes of padding before the double
decode_packet_size == 44

\* struct.unpack("4fid3f", packet); the double is kept as its bytes
decode_packet(packet) ==
    IF Len(packet) # decode_packet_size THEN Raise("struct.error")
    ELSE Ok(<<F32(SubSeq(packet, 1, 4)), F32(SubSeq(packet, 5, 8)),
              F32(SubSeq(packet, 9, 12)), F32(SubSeq(packet, 13, 16)),
              unpack_i(SubSeq(packet, 17, 20)), [f64 |-> SubSeq(packet, 25, 32)],
              F32(SubSeq(packet, 33, 36)), F32(SubSeq(packet, 37, 40)),
              F32(SubSeq(packet, 41, 44))>>)

(***************************************************************************)
(* One driving command sent and handed to the relay's decoder.             *)
(***************************************************************************)
InitOutputs ==
    MethodInit([steering : {RatInt(-1), Rat(-1, 2), RatInt(0), Rat(1, 4), RatInt(1)},
                throttle : {RatInt(0), Rat(3, 4), RatInt(1)},
                brake : {RatInt(0), RatInt(1)},
                clutch : {RatInt(0), Rat(1, 2)},
                gear_delta : {-1, 0, 1},
                time_ : {RatInt(0), Rat(5, 2), RatInt(100)}])

SendOutputs ==
    LET packet == send_outputs(arg.steering, arg.throttle, arg.brake, arg.clutch,
                               arg.gear_delta, arg.time_)
    IN  MethodReturns([packet |-> packet, decoded |-> decode_packet(packet)])

NextOutputs == SendOutputs

SpecOutputs == InitOutputs /\ [][NextOutputs]_vars

\* C28: a driving command is 24 bytes holding four singles, a 32-bit signed
\* gear delta and a single timestamp, and the relay's decode_packet accepts
\* it and recovers the same six values.
C28_RelayDecodesCommand ==
    ret # None =>
        LET packet == ret[1].packet
            sent_values == <<arg.steering, arg.throttle, arg.brake, arg.clutch,
                             arg.gear_delta, arg.time_>>
        IN  /\ Len(packet) = 24
            /\ <<F32(SubSeq(packet, 1, 4)), F32(SubSeq(packet, 5, 8)),
                 F32(SubSeq(packet, 9, 12)), F32(SubSeq(packet, 13, 16)),
                 unpack_i(SubSeq(packet, 17, 20)), F32(SubSeq(packet, 21, 24))>> = sent_values
            /\ ret[1].decoded.ok
            /\ SubSeq(ret[1].decoded.val, 1, 5) = SubSeq(sent_values, 1, 5)

\* the sender's half of C28 alone: the packet's layout
SentLayoutIsFourSinglesIntSingle ==
    ret # None =>
        /\ Len(ret[1].packet) = 24
        /\ <<F32(SubSeq(ret[1].packet, 1, 4)), F32(SubSeq(ret[1].packet, 5, 8)),
             F32(SubSeq(ret[1].packet, 9, 12)), F32(SubSeq(ret[1].packet, 13, 16)),
             unpack_i(SubSeq(ret[1].packet, 17, 20)), F32(SubSeq(ret[1].packet, 21, 24))>>
               = <<arg.steering, arg.throttle, arg.brake, arg.clutch, arg.gear_delta, arg.time_>>

(***************************************************************************)
(* The layout codec's heading byte and the teleport packet.  An angle in   *)
(* radians is the rational multiple of pi it is; degrees are rationals.    *)
(***************************************************************************)
rad2deg(radians) == RatMul(radians, RatInt(180))

\* floor of a rational
RatFloor(x) == x[1] \div x[2]

\* int() of a float: towards zero
RatTrunc(x) == IF x[1] >= 0 THEN x[1] \div x[2] ELSE -((-x[1]) \div x[2])

\* ndarray.astype(np.uint8) of a whole float.  The C conversion of a value
\* outside 0..255 is undefined; a build either keeps the low byte or clamps.
CastModes == {"wrap", "saturate"}

astype_uint8(v, cast) ==
    IF v >= 0 /\ v <= 255 THEN v
    ELSE IF cast = "wrap" THEN v % 256
    ELSE IF v < 0 THEN 0 ELSE 255

to_lyt_heading_unshifted(heading, input_is_radians, cast) ==
    LET degrees == IF input_is_radians THEN rad2deg(heading) ELSE heading
    IN  astype_uint8(RatFloor(RatDiv(RatMul(degrees, RatInt(256)), RatInt(360))), cast)

\* ((heading + 180) * 256 // 360).astype(np.uint8)
to_lyt_heading(heading, input_is_radians, cast) ==
    LET degrees == IF input_is_radians THEN rad2deg(heading) ELSE heading
    IN  astype_uint8(RatFloor(RatDiv(RatMul(RatAdd(degrees, RatInt(180)), RatInt(256)),
                                     RatInt(360))), cast)

\* struct's "h" and "B": a value out of range is a struct.error
pack_h(n) == IF n < 0 THEN <<(n + 65536) % 256, (n + 65536) \div 256>> ELSE <<n % 256, n \div 256>>

ISP_JRR == 58
JRR_RESET == 4

create_teleport_command_packet(x, y, yaw, player_id, cast) ==
    LET x16 == RatTrunc(RatMul(x, RatInt(16)))
        y16 == RatTrunc(RatMul(y, RatInt(16)))
        heading == to_lyt_heading(RatSub(yaw, Rat(1, 2)), TRUE, cast)
    IN  IF \E h \in {x16, y16} : h < -32768 \/ h > 32767 THEN Raise("struct.error")
        ELSE IF player_id < 0 \/ player_id > 255 THEN Raise("struct.error")
        ELSE Ok(<<16, ISP_JRR, 0, player_id, 0, JRR_RESET, 0, 0>> \o pack_h(x16) \o pack_h(y16)
                    \o <<240, 128, 0, heading>>)

(***************************************************************************)
(* Teleport packets for positions that are whole or fractional, negative   *)
(* or outside the 16-bit range, and for yaws within and beyond one turn.   *)
(***************************************************************************)
TeleportCoordinates == {RatInt(0), RatInt(1), Rat(-1, 32), Rat(33, 32), Rat(-33, 32),
                        RatInt(-100), RatInt(2048)}

TeleportYaws == {RatInt(0), Rat(1, 2), RatInt(1), Rat(-1, 2), Rat(1, 4), Rat(1, 3),
                 Rat(3, 2), RatInt(2), RatInt(-1), RatInt(5)}

InitTeleport ==
    MethodInit([x : TeleportCoordinates, y : {RatInt(0), Rat(-33, 32), RatInt(7)},
                yaw : TeleportYaws, player_id : {0, 1, 255}])

Teleport ==
    \E cast \in CastModes :
        MethodReturns(create_teleport_command_packet(arg.x, arg.y, arg.yaw, arg.player_id, cast))

NextTeleport == Teleport

SpecTeleport == InitTeleport /\ [][NextTeleport]_vars

\* the position in sixteenths of a metre, the fraction dropped
Sixteenths(x) ==
    LET scaled == RatMul(x, RatInt(16))
        near == scaled[1] \div scaled[2]
    IN  CHOOSE n \in (near - 1)..(near + 1) :
            IF RatLess(scaled, RatInt(0))
            THEN RatLess(RatInt(n - 1), scaled) /\ ~RatLess(RatInt(n), scaled)
            ELSE ~RatLess(scaled, RatInt(n)) /\ RatLess(scaled, RatInt(n + 1))

\* byte h is the 1/256-turn sector that holds the angle (yaw - pi/2), counted
\* from -180 degrees
InHeadingSector(h, yaw) ==
    LET turned == RatAdd(RatMul(RatSub(yaw, Rat(1, 2)), RatInt(180)), RatInt(180))
    IN  /\ ~RatLess(turned, Rat(h * 360, 256))
        /\ RatLess(turned, Rat((h + 1) * 360, 256))

\* C27: the teleport packet is 16 bytes: size 16, type 58, ReqI 0, PLID the
\* player id, UCID 0, JRRAction 4, two zero bytes, X and Y the position times
\* 16 with the fraction dropped, Zbyte 240, Flags 0x80, Index 0 and a heading
\* byte in 0..255 that is the layout heading of (yaw - pi/2).
C27_TeleportPacket ==
    (ret # None /\ Sixteenths(arg.x) \in -32768..32767) =>
        /\ ret[1].ok
        /\ Len(ret[1].val) = 16
        /\ SubSeq(ret[1].val, 1, 8) = <<16, 58, 0, arg.player_id, 0, 4, 0, 0>>
        /\ I16(ret[1].val[9], ret[1].val[10]) = Sixteenths(arg.x)
        /\ I16(ret[1].val[11], ret[1].val[12]) = Sixteenths(arg.y)
        /\ SubSeq(ret[1].val, 13, 15) = <<240, 128, 0>>
        /\ ret[1].val[16] \in 0..255
        /\ (~RatLess(arg.yaw, Rat(-1, 2)) /\ RatLess(arg.yaw, Rat(3, 2)))
              => InHeadingSector(ret[1].val[16], arg.yaw)

\* a negative fractional position and a yaw beyond one turn
C27_Witness ==
    /\ ret # None
    /\ ret[1].ok
    /\ arg.x = Rat(-33, 32)
    /\ I16(ret[1].val[9], ret[1].val[10]) = -16
    /\ arg.yaw = RatInt(2)
    /\ ret[1].val[16] = 255

(***************************************************************************)
(* The layout codec's writer (lyt_interface/io/write_lyt.py).  A position  *)
(* in the map is a pair of integers, sixteenths of a metre.  The angle of  *)
(* a vector is exact for the eight compass directions, the only ones the   *)
(* traces drawn below contain.                                             *)
(***************************************************************************)
ConeTypeToLytObjectIndex(cone_type) ==
    CASE cone_type = 0 -> 25
      [] cone_type = 1 -> 29
      [] cone_type = 2 -> 23
      [] cone_type = 3 -> 20
      [] cone_type = 4 -> 27

Sign(n) == IF n > 0 THEN 1 ELSE IF n < 0 THEN -1 ELSE 0

\* np.arctan2(vecs[1], vecs[0]) as a multiple of pi
angle_from_2d_vector(vecs) ==
    LET along == vecs[1] = 0 \/ vecs[2] = 0 \/ Abs(vecs[1]) = Abs(vecs[2])
        sx == Sign(vecs[1])
        sy == Sign(vecs[2])
    IN  CASE along /\ sy = 0 /\ sx >= 0 -> RatInt(0)
          [] along /\ sy = 0 /\ sx < 0 -> RatInt(1)
          [] along /\ sx = 0 /\ sy # 0 -> Rat(sy, 2)
          [] along /\ sx > 0 /\ sy # 0 -> Rat(sy, 4)
          [] along /\ sx < 0 /\ sy # 0 -> Rat(3 * sy, 4)

create_lyt_block_for_cone(x_pos, y_pos, heading, color_index) ==
    pack_h(x_pos) \o pack_h(y_pos) \o <<240, 0, color_index, heading>>

\* the blocks of one trace; the heading of a cone points to the next cone of
\* the trace, the last one's to the first
create_lyt_trace_bytes(trace, color_idx, cast) ==
    LET next(i) == IF i = Len(trace) THEN trace[1] ELSE trace[i + 1]
        block(i) == create_lyt_block_for_cone(trace[i][1], trace[i][2],
                        to_lyt_heading(angle_from_2d_vector(
                            <<next(i)[1] - trace[i][1], next(i)[2] - trace[i][2]>>), TRUE, cast),
                        color_idx)
        blocks[i \in 0..Len(trace)] == IF i = 0 THEN <<>> ELSE blocks[i - 1] \o block(i)
    IN  blocks[Len(trace)]

create_start_block(x_pos, y_pos, heading, cast) ==
    pack_h(x_pos) \o pack_h(y_pos) \o <<240, 0, 0, to_lyt_heading(heading, TRUE, cast)>>

\* int(width / 2) for width = factor * (norm / 16), norm the root of norm_squared
half_width(factor, norm_squared) ==
    CHOOSE k \in 0..(factor * norm_squared + 1) :
        /\ (32 * k) * (32 * k) <= factor * factor * norm_squared
        /\ (32 * (k + 1)) * (32 * (k + 1)) > factor * factor * norm_squared

\* block[5] |= ...: a flags byte above 255 is a ValueError
create_finish_block(x_pos, y_pos, heading, width_half, cast) ==
    LET block == create_start_block(x_pos, y_pos, heading, cast)
    IN  IF width_half * 4 > 255 THEN Raise("ValueError")
        ELSE Ok([block EXCEPT ![6] = width_half * 4])

create_checkpoint_block(x_pos, y_pos, heading, width_half, checkpoint_index, cast) ==
    IF checkpoint_index \notin {1, 2, 3} THEN Raise("ValueError")
    ELSE LET block == create_finish_block(x_pos, y_pos, heading, width_half, cast)
         IN  IF ~block.ok THEN block
             ELSE Ok([block.val EXCEPT ![6] = (@ \div 4) * 4 + checkpoint_index])

IntSub(p, q) == <<p[1] - q[1], p[2] - q[2]>>

\* (p + q) // 2
Midpoint(p, q) == <<(p[1] + q[1]) \div 2, (p[2] + q[2]) \div 2>>

IntNormSq(v) == v[1] * v[1] + v[2] * v[2]

\* np.linalg.norm(point - trace, axis=1).argmin(): the first closest one
argmin_distance(point, trace) ==
    CHOOSE i \in 1..Len(trace) :
        /\ \A j \in 1..Len(trace) :
               IntNormSq(IntSub(point, trace[i])) <= IntNormSq(IntSub(point, trace[j]))
        /\ \A j \in 1..(i - 1) :
               IntNormSq(IntSub(point, trace[i])) < IntNormSq(IntSub(point, trace[j]))

FitsInt16(p) == \A n \in {p[1], p[2]} : n >= -32768 /\ n <= 32767

traces_to_lyt_bytes(cones_per_type, offset_in_meters, cast) ==
    LET lfs_scale == 16
        offset == <<offset_in_meters[1] * lfs_scale, offset_in_meters[2] * lfs_scale>>
        cones_in_map ==
            [t \in 1..Len(cones_per_type) |->
                [i \in 1..Len(cones_per_type[t]) |->
                    <<RatTrunc(RatAdd(RatMul(cones_per_type[t][i][1], RatInt(lfs_scale)),
                                      RatInt(offset[1]))),
                      RatTrunc(RatAdd(RatMul(cones_per_type[t][i][2], RatInt(lfs_scale)),
                                      RatInt(offset[2])))>>]]
        right_in_map == cones_in_map[2]
        left_in_map == cones_in_map[3]
        start_finish_in_map == cones_in_map[5]
        n_left == Len(left_in_map)
        half_len == n_left \div 2
        left_point_half == left_in_map[half_len + 1]
        right_point_half == right_in_map[argmin_distance(left_point_half, right_in_map)]
        quarter == Rat(1, 2)
        start_block ==
            create_start_block(Midpoint(left_in_map[n_left - 1], right_in_map[Len(right_in_map) - 1])[1],
                Midpoint(left_in_map[n_left - 1], right_in_map[Len(right_in_map) - 1])[2],
                RatAdd(angle_from_2d_vector(IntSub(left_in_map[n_left - 1], left_in_map[n_left])),
                       quarter), cast)
        finish_block ==
            create_finish_block(Midpoint(start_finish_in_map[1], start_finish_in_map[2])[1],
                Midpoint(start_finish_in_map[1], start_finish_in_map[2])[2],
                RatAdd(angle_from_2d_vector(IntSub(left_in_map[n_left], left_in_map[1])), quarter),
                half_width(3, IntNormSq(IntSub(start_finish_in_map[1], start_finish_in_map[2]))),
                cast)
        check_block ==
            create_checkpoint_block(Midpoint(left_point_half, right_point_half)[1],
                Midpoint(left_point_half, right_point_half)[2],
                RatAdd(angle_from_2d_vector(
                           IntSub(left_in_map[IF half_len = 0 THEN n_left ELSE half_len],
                                  left_point_half)), quarter),
                half_width(5, IntNormSq(IntSub(left_point_half, right_point_half))), 1, cast)
        cones_bytes[t \in 0..Len(cones_in_map)] ==
            IF t = 0 THEN <<>>
            ELSE cones_bytes[t - 1]
                     \o create_lyt_trace_bytes(cones_in_map[t],
                            ConeTypeToLytObjectIndex(ConeTypes[t]), cast)
        final_object_blocks ==
            start_block \o finish_block.val \o check_block.val \o cones_bytes[Len(cones_in_map)]
        n_obj == Len(final_object_blocks) \div BLOCK_STRUCT_size
    IN  IF \E t \in 1..Len(cones_in_map) : \E i \in 1..Len(cones_in_map[t]) :
               ~FitsInt16(cones_in_map[t][i])
        THEN Raise("struct.error")
        ELSE IF Len(right_in_map) < 2 \/ n_left < 2 THEN Raise("IndexError")
        ELSE IF Len(start_finish_in_map) < 2 THEN Raise("IndexError")
        ELSE IF ~finish_block.ok THEN finish_block
        ELSE IF ~check_block.ok THEN check_block
        ELSE IF Len(final_object_blocks) % BLOCK_STRUCT_size # 0 THEN Raise("AssertionError")
        ELSE IF n_obj > 32767 THEN Raise("struct.error")
        ELSE Ok(LFSLYT \o <<0, 251>> \o pack_h(n_obj) \o <<10, 8>> \o final_object_blocks)

\* the offset of a world's centre, in metres; None for an unknown world
world_offset(world_name) ==
    CASE world_name = "BL4" -> Some(<<-261, 124>>)
      [] world_name = "AU1" -> Some(<<-50, -1010>>)
      [] world_name = "AU2" -> Some(<<-138, -696>>)
      [] world_name = "AU3" -> Some(<<-66, -50>>)
      [] world_name = "WE3" -> Some(<<64, -1200>>)
      [] world_name = "LA2" -> Some(<<538, 548>>)
      [] OTHER -> None

\* the file's name and content
write_traces_as_lyt(world_name, layout_name, cones_per_type, cast) ==
    IF world_offset(world_name) = None THEN Raise("ValueError")
    ELSE LET bytes_to_write == traces_to_lyt_bytes(cones_per_type, world_offset(world_name)[1],
                                                   cast)
         IN  IF ~bytes_to_write.ok THEN bytes_to_write
             ELSE Ok([filename |-> <<world_name, "_", layout_name, ".lyt">>,
                      content |-> bytes_to_write.val])

(***************************************************************************)
(* A layout written for a world and loaded again.  The cone lists hold     *)
(* coordinates that are multiples of 1/16 m; every type's list is empty in *)
(* some of them.                                                           *)
(***************************************************************************)
Worlds == {"BL4", "AU1", "LA2", "KY1"}

UnknownCones == {<<>>, << <<Rat(1, 16), Rat(-1, 16)>> >>}

YellowCones ==
    {<<>>, << P2(0, -2) >>, << P2(0, -2), <<Rat(5, 2), RatInt(-2)>>, P2(5, -2) >>}

BlueCones ==
    {<<>>, << P2(0, 2), P2(5, 2) >>, << P2(0, 2), <<Rat(5, 2), RatInt(2)>>, P2(5, 2) >>}

OrangeSmallCones == {<<>>, << P2(-1, 0) >>}

OrangeBigCones == {<<>>, << P2(0, -3), P2(0, 3) >>}

InitWriteLyt ==
    MethodInit({[world_name |-> w, cones_per_type |-> <<u, y, b, os, ob>>] :
                   w \in Worlds, u \in UnknownCones, y \in YellowCones, b \in BlueCones,
                   os \in OrangeSmallCones, ob \in OrangeBigCones})

\* write_traces_as_lyt, then load_lyt_file on the file it wrote
WriteThenLoad ==
    \E cast \in CastModes :
        LET file == write_traces_as_lyt(arg.world_name, "T", arg.cones_per_type, cast)
        IN  MethodReturns([file |-> file,
                           loaded |-> IF file.ok THEN load_lyt_file(Some(file.val.content))
                                      ELSE load_lyt_file(None)])

NextWriteLyt == WriteThenLoad

SpecWriteLyt == InitWriteLyt /\ [][NextWriteLyt]_vars

\* C21: for every world of the offset table, loading the file written from
\* per-type cone lists with coordinates that are multiples of 1/16 m returns
\* the same cones: same count, order and coordinates for every type.
C21_WriteLoadRoundTrip ==
    (ret # None /\ world_offset(arg.world_name) # None) =>
        /\ ret[1].file.ok
        /\ ret[1].loaded.ok
        /\ ret[1].loaded.val = arg.cones_per_type

\* the bytes after the header, and the indices of their blocks
WrittenBody == Drop(ret[1].file.val.content, HEADER_STRUCT_size)

WrittenIndices == {WrittenBody[8 * k + 7] : k \in 0..((Len(WrittenBody) \div 8) - 1)}

\* C22: writing a layout in which some cone type's list is empty succeeds,
\* puts no block with that type's object index in the file, and the body is a
\* whole number of 8-byte blocks, as many as the header's object count.
C22_EmptyTypeWritesNoBlock ==
    (/\ ret # None
     /\ world_offset(arg.world_name) # None
     /\ \E t \in 1..5 : arg.cones_per_type[t] = <<>>) =>
        /\ ret[1].file.ok
        /\ \A t \in 1..5 :
               arg.cones_per_type[t] = <<>>
                   => ConeTypeToLytObjectIndex(ConeTypes[t]) \notin WrittenIndices
        /\ Len(WrittenBody) % 8 = 0
        /\ Len(WrittenBody) \div 8
               = I16(ret[1].file.val.content[9], ret[1].file.val.content[10])

\* what the code does do when the write succeeds: the cones come back moved
\* by the world's offset, and the block count matches the header
WrittenLayoutLoadsShifted ==
    (ret # None /\ ret[1].file.ok) =>
        LET offset == world_offset(arg.world_name)[1]
        IN  /\ ret[1].loaded.ok
            /\ ret[1].loaded.val =
                   [t \in 1..5 |->
                       [i \in 1..Len(arg.cones_per_type[t]) |->
                           PointAdd(arg.cones_per_type[t][i], P2(offset[1], offset[2]))]]
            /\ Len(WrittenBody) % 8 = 0
            /\ Len(WrittenBody) \div 8
                   = I16(ret[1].file.val.content[9], ret[1].file.val.content[10])
            /\ \A t \in {1, 4} :
                   arg.cones_per_type[t] = <<>>
                       => ConeTypeToLytObjectIndex(ConeTypes[t]) \notin WrittenIndices

WriteSucceeded == ret # None /\ ret[1].file.ok /\ arg.cones_per_type[1] = <<>>

(***************************************************************************)
(* Simulation timer callbacks.  An entry of simulation_timer_callbacks is  *)
(* (func, interval, last_time_called), times in milliseconds of simulation *)
(* time; last_time_called is -1 until the callback is armed.               *)
(***************************************************************************)
register_simulation_timer_callback(callbacks, func, interval) ==
    IF ~(interval > 0) THEN Raise("AssertionError")
    ELSE Ok(Append(callbacks, [func |-> func, interval |-> interval, last_time_called |-> -1]))

\* a faulty variant of lines 565-576: a simulation time lower than the
\* reference time is not taken for a restart
timer_callback_step_no_restart(entry, sim_time) ==
    LET last_time_called == entry.last_time_called
        should_call_now == sim_time - last_time_called > entry.interval
                               /\ last_time_called # -1
    IN  [should_call_now |-> should_call_now,
         entry |-> [entry EXCEPT !.last_time_called =
                        IF should_call_now \/ last_time_called = -1 THEN sim_time
                        ELSE last_time_called]]

\* one pass of the while loop, for the entry popped from the end
timer_callback_step(entry, sim_time) ==
    LET last_time_called == IF sim_time < entry.last_time_called THEN -1
                            ELSE entry.last_time_called
        should_call_now == sim_time - last_time_called > entry.interval
                               /\ last_time_called # -1
    IN  [should_call_now |-> should_call_now,
         entry |-> [entry EXCEPT !.last_time_called =
                        IF should_call_now \/ last_time_called = -1 THEN sim_time
                        ELSE last_time_called]]

\* a faulty variant of lines 561-580: an entry whose callback was invoked is
\* put back twice
run_simulation_timer_callbacks_doubling(self, sim_time) ==
    IF sim_time = None THEN self
    ELSE LET n == Len(self.simulation_timer_callbacks)
             popped(k) == timer_callback_step(self.simulation_timer_callbacks[n + 1 - k],
                                              sim_time[1])
             created[k \in 0..n] ==
                 IF k = 0 THEN self.tasks
                 ELSE IF popped(k).should_call_now
                      THEN Append(created[k - 1],
                                  [callback |-> popped(k).entry.func, arg |-> None])
                      ELSE created[k - 1]
             next_time[k \in 0..n] ==
                 IF k = 0 THEN <<>>
                 ELSE IF popped(k).should_call_now
                      THEN next_time[k - 1] \o <<popped(k).entry, popped(k).entry>>
                      ELSE Append(next_time[k - 1], popped(k).entry)
         IN  [simulation_timer_callbacks |-> next_time[n],
              tasks |-> created[n]]

\* the entries are popped from the end, so the list comes out reversed
run_simulation_timer_callbacks(self, sim_time) ==
    IF sim_time = None THEN self
    ELSE LET n == Len(self.simulation_timer_callbacks)
             popped(k) == timer_callback_step(self.simulation_timer_callbacks[n + 1 - k],
                                              sim_time[1])
             created[k \in 0..n] ==
                 IF k = 0 THEN self.tasks
                 ELSE IF popped(k).should_call_now
                      THEN Append(created[k - 1],
                                  [callback |-> popped(k).entry.func, arg |-> None])
                      ELSE created[k - 1]
         IN  [simulation_timer_callbacks |-> [k \in 1..n |-> popped(k).entry],
              tasks |-> created[n]]

(***************************************************************************)
(* The callbacks of demo/sim_timer.py, registered one after the other;     *)
(* then the simulation time advances by 10 or 100 ms between timer runs.   *)
(***************************************************************************)
DemoTimers ==
    << <<"every_100_ms", 100>>, <<"every_1000_ms", 1000>>, <<"every_1_ms", 1>>,
       <<"every_20_s", 20 * 1000>> >>

MaxRuns == 4
MaxSimTime == 220

InitTimer == MethodInit({None})

\* the demo registers in its constructor, before the tick loop runs
Register ==
    /\ simulation_time = None
    /\ timer_log.runs = 0
    /\ Len(simulation_timer_callbacks) < Len(DemoTimers)
    /\ LET next == DemoTimers[Len(simulation_timer_callbacks) + 1]
       IN  simulation_timer_callbacks' =
               register_simulation_timer_callback(simulation_timer_callbacks,
                                                  next[1], next[2]).val
    /\ UNCHANGED <<insim_pc, connection_attempt, buffer, error, received, partial_seen, call,
                   objvars, envvars, entervars, methodvars, tickvars>>
    /\ UNCHANGED <<lfs_paused, lfs_handled, pause_calls, timer_log>>
    /\ UNCHANGED sendvars

\* the tick loop stores a packet's time (line 389)
SimulationAdvances ==
    /\ \E d \in {10, 100} :
           /\ IF simulation_time = None THEN TRUE
              ELSE simulation_time[1] + d <= MaxSimTime
           /\ simulation_time' =
                  IF simulation_time = None THEN Some(d) ELSE Some(simulation_time[1] + d)
    /\ UNCHANGED <<aiter_pc, aiter, clock, mmap_data, mmap_written, yielded, polls,
                   quiet_polls>>
    /\ UNCHANGED <<insim_pc, connection_attempt, buffer, error, received, partial_seen, call,
                   objvars, envvars, entervars, methodvars, ctlvars, sendvars>>

Since(func) == IF func \in DOMAIN timer_log.since THEN timer_log.since[func] ELSE None

\* one run of spin_sim_time_callbacks' loop body
RunTimers ==
    /\ timer_log.runs < MaxRuns
    /\ LET after == run_simulation_timer_callbacks(
                        [simulation_timer_callbacks |-> simulation_timer_callbacks,
                         tasks |-> tasks], simulation_time)
           registered == {simulation_timer_callbacks[i].func :
                              i \in 1..Len(simulation_timer_callbacks)}
           invoked(f) == \E j \in (Len(tasks) + 1)..Len(after.tasks) :
                             after.tasks[j].callback = f
       IN  /\ simulation_timer_callbacks' = after.simulation_timer_callbacks
           /\ tasks' = after.tasks
           /\ timer_log' =
                  [runs |-> timer_log.runs + 1,
                   since |-> IF simulation_time = None THEN timer_log.since
                             ELSE [f \in registered |->
                                      IF Since(f) = None \/ invoked(f) THEN simulation_time
                                      ELSE IF simulation_time[1] < Since(f)[1]
                                           THEN simulation_time
                                           ELSE Since(f)]]
    /\ UNCHANGED <<written, active_layout_name, lyt_interface, insim_state, handled, reloads>>
    /\ UNCHANGED <<insim_pc, connection_attempt, buffer, error, received, partial_seen, call,
                   envvars, entervars, methodvars, tickvars>>
    /\ UNCHANGED <<lfs_paused, lfs_handled, pause_calls>>
    /\ UNCHANGED sendvars

NextTimer == Register \/ SimulationAdvances \/ RunTimers

SpecTimer == InitTimer /\ [][NextTimer]_vars

InvokedInStep(func) ==
    \E j \in (Len(tasks) + 1)..Len(tasks') : tasks'[j].callback = func

\* C30: at a timer run, a callback that was armed or last invoked at
\* simulation time s is invoked exactly when the simulation time has advanced
\* by at least its interval since s: at the first such run, and not before.
C30_InvokedEveryInterval ==
    [][(timer_log'.runs = timer_log.runs + 1 /\ simulation_time # None) =>
          \A i \in 1..Len(simulation_timer_callbacks) :
              LET entry == simulation_timer_callbacks[i]
                  since == Since(entry.func)
              IN  (since # None /\ simulation_time[1] >= since[1]) =>
                      (InvokedInStep(entry.func)
                           <=> simulation_time[1] - since[1] >= entry.interval)
      ]_vars

\* the half of C30 the code keeps: no invocation before the interval has passed
NeverInvokedEarly ==
    [][(timer_log'.runs = timer_log.runs + 1 /\ simulation_time # None) =>
          \A i \in 1..Len(simulation_timer_callbacks) :
              LET entry == simulation_timer_callbacks[i]
                  since == Since(entry.func)
              IN  InvokedInStep(entry.func) =>
                      /\ since # None
                      /\ simulation_time[1] - since[1] > entry.interval
      ]_vars

(***************************************************************************)
(* Pausing.  LFSInterface.pause_lfs and unpause_lfs decide on the state    *)
(* the last state packet left in insim_state; the simulator toggles its    *)
(* pause when it acts on a "/press p" command and then reports its state.  *)
(***************************************************************************)
ISP_MST == 13

\* b"/press "
PressText == <<47, 112, 114, 101, 115, 115, 32>>

\* IS_MST: Size Type ReqI Zero Msg(64), the message "/press <key>".  The
\* function is imported from insim_utils but not defined there; for the key
\* "p" these are the bytes of create_press_p_command_packet, which is.
create_key_press_command_packet(key) == <<68, ISP_MST, 0, 0>> \o Pad(PressText \o <<key>>, 64)

\* `connected`: self._insim_writer is not None
send_message_to_insim(self, connected, packet) ==
    IF ~connected THEN Failed("RuntimeError", self)
    ELSE Done([self EXCEPT !.written = Append(@, packet)])

\* send_press_p_command: send_key_press_command("p")
toggle_lfs_pause(self, connected) ==
    send_message_to_insim(self, connected, create_key_press_command_packet(112))

\* the property LFSInterface.lfs_is_paused
interface_lfs_is_paused(self) ==
    IF self.insim_state = None THEN Raise("AttributeError")
    ELSE Ok(lfs_is_paused(self.insim_state[1]))

pause_lfs(self, connected) ==
    LET paused == interface_lfs_is_paused(self)
    IN  IF ~paused.ok THEN Failed(paused.err, self)
        ELSE IF ~paused.val THEN toggle_lfs_pause(self, connected)
        ELSE Done(self)

unpause_lfs(self, connected) ==
    LET paused == interface_lfs_is_paused(self)
    IN  IF ~paused.ok THEN Failed(paused.err, self)
        ELSE IF paused.val THEN toggle_lfs_pause(self, connected)
        ELSE Done(self)

(***************************************************************************)
(* Pause calls interleaved with the simulator acting on the commands and   *)
(* with the arrival of its state packets.  A state packet that arrives is  *)
(* stored as lines 293-294 store it.                                       *)
(***************************************************************************)
MaxPauseCalls == 2

\* IS_STA's Flags: ISS_PAUSED is 4
StateOf(paused) == Sta(IF paused THEN 4 ELSE 0)

InitPause ==
    /\ insim_pc = "reading"
    /\ connection_attempt = 1
    /\ buffer = <<>>
    /\ wire = <<>>
    /\ eof = FALSE
    /\ sent = 0
    /\ closes = 0
    /\ error = ""
    /\ written = <<>>
    /\ active_layout_name = None
    /\ lyt_interface = None
    /\ lfs_paused \in BOOLEAN
    /\ insim_state \in {None, Some(InSimState_from_bytes(StateOf(lfs_paused)).val)}
    /\ tasks = <<>>
    /\ handled = <<>>
    /\ reloads = <<>>
    /\ received = <<>>
    /\ partial_seen = FALSE
    /\ call = None
    /\ enter_pc = "start"
    /\ arg = None
    /\ ret = None
    /\ TickIdle
    /\ lfs_handled = 0
    /\ pause_calls = <<>>
    /\ simulation_timer_callbacks = <<>>
    /\ timer_log = [runs |-> 0, since |-> <<>>]
    /\ SendIdle

PauseSelf ==
    [written |-> written, active_layout_name |-> active_layout_name,
     lyt_interface |-> lyt_interface, insim_state |-> insim_state,
     tasks |-> tasks, handled |-> handled, reloads |-> reloads]

PauseCall ==
    /\ Len(pause_calls) < MaxPauseCalls
    /\ \E method \in {"pause_lfs", "unpause_lfs", "toggle_lfs_pause"} :
           LET res == CASE method = "pause_lfs" -> pause_lfs(PauseSelf, insim_pc = "reading")
                        [] method = "unpause_lfs" -> unpause_lfs(PauseSelf, insim_pc = "reading")
                        [] method = "toggle_lfs_pause" ->
                               toggle_lfs_pause(PauseSelf, insim_pc = "reading")
           IN  /\ written' = res.self.written
               /\ pause_calls' =
                      Append(pause_calls,
                             [method |-> method, lfs_paused |-> lfs_paused,
                              settled |-> /\ lfs_handled = Len(written)
                                          /\ wire = <<>>
                                          /\ insim_state # None,
                              sent |-> Len(res.self.written) - Len(written),
                              err |-> res.err])
    /\ UNCHANGED <<active_layout_name, lyt_interface, insim_state, tasks, handled, reloads>>
    /\ UNCHANGED <<insim_pc, connection_attempt, buffer, error, received, partial_seen, call,
                   envvars, entervars, methodvars, tickvars>>
    /\ UNCHANGED <<lfs_paused, lfs_handled, simulation_timer_callbacks, timer_log>>
    /\ UNCHANGED sendvars

\* the simulator acts on the next packet it was sent
LfsHandlesCommand ==
    /\ lfs_handled < Len(written)
    /\ lfs_handled' = lfs_handled + 1
    /\ IF written[lfs_handled + 1] = create_key_press_command_packet(112)
       THEN /\ lfs_paused' = ~lfs_paused
            /\ wire' = wire \o StateOf(~lfs_paused)
            /\ sent' = sent + 1
       ELSE UNCHANGED <<lfs_paused, wire, sent>>
    /\ UNCHANGED <<eof, closes>>
    /\ UNCHANGED <<insim_pc, connection_attempt, buffer, error, received, partial_seen, call,
                   objvars, entervars, methodvars, tickvars>>
    /\ UNCHANGED <<pause_calls, simulation_timer_callbacks, timer_log>>
    /\ UNCHANGED sendvars

\* a state packet is read and stored
StateArrives ==
    /\ wire # <<>>
    /\ LET packet == Take(wire, wire[1])
           got == handle_insim_packet(packet)
       IN  /\ got.ok
           /\ insim_state' = set_insim_state(PauseSelf, [new_insim_state |-> got.val[3]]).insim_state
           /\ wire' = Drop(wire, wire[1])
    /\ UNCHANGED <<written, active_layout_name, lyt_interface, tasks, handled, reloads>>
    /\ UNCHANGED <<eof, sent, closes>>
    /\ UNCHANGED <<insim_pc, connection_attempt, buffer, error, received, partial_seen, call,
                   entervars, methodvars, tickvars, ctlvars, sendvars>>

NextPause == PauseCall \/ LfsHandlesCommand \/ StateArrives

SpecPause == InitPause /\ [][NextPause]_vars

CallAsClaimed(c) ==
    /\ c.err = ""
    /\ c.method = "pause_lfs" => c.sent = (IF c.lfs_paused THEN 0 ELSE 1)
    /\ c.method = "unpause_lfs" => c.sent = (IF c.lfs_paused THEN 1 ELSE 0)
    /\ c.method = "toggle_lfs_pause" => c.sent = 1

\* every command sent was acted on
AllCommandsHandled == lfs_handled = Len(written)

\* C29: a pause_lfs call made while the simulator is paused sends nothing and
\* one made while it is not paused sends one toggle command (unpause_lfs the
\* other way round), whatever state packets are still under way; after two
\* pause_lfs calls in a row the simulator is not left unpaused.
C29_PauseIsIdempotent ==
    /\ \A i \in 1..Len(pause_calls) : CallAsClaimed(pause_calls[i])
    /\ (/\ Len(pause_calls) >= 2
        /\ pause_calls[Len(pause_calls)].method = "pause_lfs"
        /\ pause_calls[Len(pause_calls) - 1].method = "pause_lfs"
        /\ AllCommandsHandled) => lfs_paused

\* what the code does keep: a call made when no command and no state packet
\* is under way and a state packet has been stored behaves as claimed
SettledCallsAsClaimed ==
    \A i \in 1..Len(pause_calls) : pause_calls[i].settled => CallAsClaimed(pause_calls[i])

\* two pause_lfs calls in a row left the simulator unpaused although a state
\* packet had been stored before the first
TwoPausesLeftUnpaused ==
    /\ Len(pause_calls) = 2
    /\ pause_calls[1].method = "pause_lfs" /\ pause_calls[1].settled
    /\ pause_calls[2].method = "pause_lfs"
    /\ AllCommandsHandled
    /\ ~lfs_paused

(***************************************************************************)
(* Commands sent to the simulator.  send_key_press_command and             *)
(* send_say_message_command go through send_message_to_insim;              *)
(* teleport_car_to_location writes to self._insim_writer itself.           *)
(***************************************************************************)
\* b"/say "
SayText == <<47, 115, 97, 121, 32>>

\* IS_MST carrying "/say <message>".  Like create_key_press_command_packet
\* the function is imported from insim_utils but not defined there.
create_say_packet(message) == <<68, ISP_MST, 0, 0>> \o Pad(SayText \o message, 64)

send_key_press_command(self, connected, key) ==
    send_message_to_insim(self, connected, create_key_press_command_packet(key))

send_say_message_command(self, connected, message) ==
    send_message_to_insim(self, connected, create_say_packet(message))

\* lines 505-506: self._insim_writer.write(teleport_packet); an attribute of
\* None is asked for when there is no writer
writer_write(self, connected, packet) ==
    IF ~connected THEN Failed("AttributeError", self)
    ELSE Done([self EXCEPT !.written = Append(@, packet)])

teleport_car_to_location(self, connected, x, y, yaw, player_id, cast) ==
    LET teleport_packet == create_teleport_command_packet(x, y, yaw, player_id, cast)
    IN  IF ~teleport_packet.ok THEN Failed(teleport_packet.err, self)
        ELSE writer_write(self, connected, teleport_packet.val)

(***************************************************************************)
(* One command issued on an interface that never connected, or on one      *)
(* whose connection is open and has the three opening packets written.     *)
(***************************************************************************)
Commands ==
    [method : {"send_key_press_command"}, key : {112, 114, 32}]
        \cup [method : {"send_say_message_command"}, message : {<<>>, <<104, 105>>}]
        \cup [method : {"teleport_car_to_location"},
              x : {RatInt(0), Rat(-33, 32), RatInt(2048)}, y : {RatInt(0), RatInt(7)},
              yaw : {RatInt(0), Rat(1, 2), Rat(1, 3), RatInt(5)}, player_id : {1, 255}]

InitCommands ==
    /\ insim_pc \in {"connecting", "reading"}
    /\ connection_attempt = 1
    /\ buffer = <<>>
    /\ wire = <<>>
    /\ eof = FALSE
    /\ sent = 0
    /\ closes = 0
    /\ error = ""
    /\ written = IF insim_pc = "reading"
                 THEN <<create_insim_initialization_packet(program_name, <<>>),
                        buffer_to_send_for_axi_request, create_request_IS_STA_packet>>
                 ELSE <<>>
    /\ active_layout_name = None
    /\ lyt_interface = None
    /\ insim_state = None
    /\ tasks = <<>>
    /\ handled = <<>>
    /\ reloads = <<>>
    /\ received = <<>>
    /\ partial_seen = FALSE
    /\ call = None
    /\ enter_pc = "start"
    /\ arg \in Commands
    /\ ret = None
    /\ TickIdle
    /\ ControlIdle
    /\ SendIdle

IssueCommand ==
    /\ ret = None
    /\ \E cast \in CastModes :
           LET connected == insim_pc = "reading"
               res == CASE arg.method = "send_key_press_command" ->
                               send_key_press_command(PauseSelf, connected, arg.key)
                        [] arg.method = "send_say_message_command" ->
                               send_say_message_command(PauseSelf, connected, arg.message)
                        [] arg.method = "teleport_car_to_location" ->
                               teleport_car_to_location(PauseSelf, connected, arg.x, arg.y,
                                                        arg.yaw, arg.player_id, cast)
           IN  /\ written' = res.self.written
               /\ ret' = Some([ok |-> res.ok, err |-> res.err,
                               wrote |-> SubSeq(res.self.written, Len(written) + 1,
                                                Len(res.self.written))])
    /\ UNCHANGED <<active_layout_name, lyt_interface, insim_state, tasks, handled, reloads>>
    /\ UNCHANGED <<insim_pc, connection_attempt, buffer, error, received, partial_seen, call,
                   arg, envvars, entervars, tickvars, ctlvars, sendvars>>

NextCommands == IssueCommand

SpecCommands == InitCommands /\ [][NextCommands]_vars

\* C31: a key press, say or teleport command issued before any InSim
\* connection was established raises RuntimeError and writes nothing.
C31_UnconnectedCommandRaises ==
    (ret # None /\ insim_pc = "connecting") =>
        /\ ret[1].err = "RuntimeError"
        /\ ret[1].wrote = <<>>
        /\ written = <<>>

\* what the code does keep: nothing is written without a connection, and
\* the two commands that go through send_message_to_insim raise RuntimeError
UnconnectedCommandWritesNothing ==
    (ret # None /\ insim_pc = "connecting") =>
        /\ ~ret[1].ok
        /\ written = <<>>
        /\ arg.method # "teleport_car_to_location" => ret[1].err = "RuntimeError"

(***************************************************************************)
(* Connecting.  `written` holds what was written to the writer of the      *)
(* connection last opened, `received` and `handled` what was read and      *)
(* handled on it.                                                          *)
(***************************************************************************)
OpeningPacketsFirst ==
    /\ Len(written) >= 3
    /\ written[1] = create_insim_initialization_packet(program_name, <<>>)
    /\ written[2] = buffer_to_send_for_axi_request
    /\ written[3] = create_request_IS_STA_packet

\* C32: connect_to_insim does not return while attempts are refused (a
\* refused attempt is followed by the next attempt and writes nothing); once
\* a connection is open the initialization packet, the layout-name request
\* and the state request are the first three packets written on it, and they
\* are there before anything received on it is read or handled.
C32_OpeningPacketsBeforeHandling ==
    /\ []((insim_pc = "reading" \/ received # <<>> \/ handled # <<>>)
              => OpeningPacketsFirst)
    /\ [][connection_attempt' > connection_attempt
              => /\ insim_pc = "connecting" /\ insim_pc' = "connecting"
                 /\ written' = written]_vars
    /\ [][(insim_pc = "connecting" /\ insim_pc' # "connecting")
              => /\ insim_pc' = "reading"
                 /\ OpeningPacketsFirst'
                 /\ Len(written') = 3
                 /\ received' = <<>> /\ handled' = <<>>]_vars

\* a connection opened after the first one was closed, on which bytes were
\* received
C32_Witness ==
    /\ closes = 1
    /\ insim_pc = "reading"
    /\ received # <<>>
    /\ OpeningPacketsFirst

(***************************************************************************)
(* Timer runs with callbacks registered at any time (before the first      *)
(* telemetry, between runs) and a simulation that can start again: the     *)
(* tick loop stores whatever packet time the sample carries (line 389), so *)
(* the simulation time can go down.                                        *)
(***************************************************************************)
\* two of the callbacks of demo/sim_timer.py, registered in either order
LateTimers == {<<"every_100_ms", 100>>, <<"every_1_ms", 1>>}

InitTimerRuns == MethodInit({None})

RegisterAnytime ==
    /\ \E next \in LateTimers :
           /\ \A i \in 1..Len(simulation_timer_callbacks) :
                  simulation_timer_callbacks[i].func # next[1]
           /\ simulation_timer_callbacks' =
                  register_simulation_timer_callback(simulation_timer_callbacks,
                                                     next[1], next[2]).val
    /\ UNCHANGED <<insim_pc, connection_attempt, buffer, error, received, partial_seen, call,
                   objvars, envvars, entervars, methodvars, tickvars>>
    /\ UNCHANGED <<lfs_paused, lfs_handled, pause_calls, timer_log>>
    /\ UNCHANGED sendvars

\* a packet of a simulation that started again: its time is 0 or 10 ms
SimulationRestarts ==
    /\ simulation_time # None
    /\ \E t \in {0, 10} :
           /\ IF simulation_time = None THEN FALSE ELSE t < simulation_time[1]
           /\ simulation_time' = Some(t)
    /\ UNCHANGED <<aiter_pc, aiter, clock, mmap_data, mmap_written, yielded, polls,
                   quiet_polls>>
    /\ UNCHANGED <<insim_pc, connection_attempt, buffer, error, received, partial_seen, call,
                   objvars, envvars, entervars, methodvars, ctlvars, sendvars>>

NextTimerRuns == RegisterAnytime \/ SimulationAdvances \/ SimulationRestarts \/ RunTimers

SpecTimerRuns == InitTimerRuns /\ [][NextTimerRuns]_vars

IsTimerRun == timer_log'.runs = timer_log.runs + 1

\* the entry of a callback in the list as the step leaves it
EntryAfter(func) ==
    CHOOSE e \in {simulation_timer_callbacks'[j] : j \in 1..Len(simulation_timer_callbacks')} :
        e.func = func

\* C33: at a timer run a callback that was not armed yet (registered and not
\* yet run with a known simulation time) or whose reference time is above
\* the simulation time (restart) is not invoked and gets the simulation time
\* as its reference time; a run made while the simulation time is unknown
\* invokes nothing.
C33_NotInvokedWhenArmedOrRestarted ==
    [][IsTimerRun =>
          IF simulation_time = None
          THEN tasks' = tasks /\ simulation_timer_callbacks' = simulation_timer_callbacks
          ELSE \A i \in 1..Len(simulation_timer_callbacks) :
                   LET entry == simulation_timer_callbacks[i]
                   IN  (entry.last_time_called = -1
                            \/ simulation_time[1] < entry.last_time_called)
                           => /\ ~InvokedInStep(entry.func)
                              /\ EntryAfter(entry.func).last_time_called = simulation_time[1]
      ]_vars

\* after a restart to time 0 a run re-armed a callback that had been invoked
\* before, and one registered later was armed at its first run
C33_Witness ==
    /\ simulation_time = Some(0)
    /\ \E i \in 1..Len(tasks) : tasks[i].callback = "every_1_ms"
    /\ Len(simulation_timer_callbacks) = 2
    /\ \A i \in 1..2 : simulation_timer_callbacks[i].last_time_called = 0

Pairs(callbacks) == {<<callbacks[i].func, callbacks[i].interval>> : i \in 1..Len(callbacks)}

TimesPresent(callbacks, pair) ==
    Cardinality({i \in 1..Len(callbacks) :
                    <<callbacks[i].func, callbacks[i].interval>> = pair})

\* C38: a timer run leaves every registered (callback, interval) pair in the
\* list as often as it was there (once), adds none, and schedules at most
\* one invocation of each registered callback and none of any other.
C38_RunPreservesCallbacks ==
    [][IsTimerRun =>
          /\ Pairs(simulation_timer_callbacks') = Pairs(simulation_timer_callbacks)
          /\ \A pair \in Pairs(simulation_timer_callbacks) :
                 /\ TimesPresent(simulation_timer_callbacks, pair) = 1
                 /\ TimesPresent(simulation_timer_callbacks', pair) = 1
                 /\ Cardinality({j \in (Len(tasks) + 1)..Len(tasks') :
                                    tasks'[j].callback = pair[1]}) <= 1
          /\ Len(simulation_timer_callbacks') = Len(simulation_timer_callbacks)
          /\ SubSeq(tasks', 1, Len(tasks)) = tasks
          /\ \A j \in (Len(tasks) + 1)..Len(tasks') :
                 \E pair \in Pairs(simulation_timer_callbacks) : tasks'[j].callback = pair[1]
      ]_vars

\* a run that invoked a callback left both callbacks registered
C38_Witness ==
    /\ timer_log.runs >= 2
    /\ Len(simulation_timer_callbacks) = 2
    /\ tasks # <<>>
    /\ \E i \in 1..2 : /\ simulation_timer_callbacks[i].last_time_called > 0
                       /\ simulation_timer_callbacks[i].func = tasks[Len(tasks)].callback

\* C34: every call of handle_insim_buffer returns, and every packet its loop
\* took off the buffer was at least one byte long, also when the first byte
\* of the buffer is 0 or 1.
C34_BufferCallReturns ==
    call # None =>
        /\ call[1].ok
        /\ \A i \in 1..Len(call[1].handled) : Len(call[1].handled[i]) >= 1

\* the loop took an empty packet off a buffer that starts with a 0 byte, and
\* the call ended in IndexError
EmptyPacketTaken ==
    /\ call # None
    /\ call[1].input = ZeroLength
    /\ call[1].handled = << <<>> >>
    /\ ~call[1].ok
    /\ error = "IndexError"

NameWithoutConeMap ==
    /\ ret # None
    /\ ~ret[1].ok
    /\ active_layout_name = arg /\ arg # None
    /\ layout_file(arg[1]) = None
    /\ lyt_interface = None

(***************************************************************************)
(* The packets of a byte stream: each starts with its length.  A length of *)
(* 0 frames an empty packet, after which no byte of the stream is left     *)
(* behind it.                                                              *)
(***************************************************************************)
RECURSIVE Frames(_)
Frames(stream) ==
    IF stream = <<>> THEN <<>>
    ELSE IF Len(stream) < stream[1] THEN <<>>
    ELSE IF stream[1] = 0 THEN << <<>> >>
    ELSE <<Take(stream, stream[1])>> \o Frames(Drop(stream, stream[1]))

StampBytes == U32Bytes(mmap_data.stamp) \o Zeros(4)

\* the step polls the sample the preceding poll saw
PollsSameStamp == IsPoll /\ aiter.last_timestamp = Some(StampBytes)

MaxStored == 6

\* line 54
on_lfs_data(snapshot) == Some(snapshot)

InitPropagator ==
    /\ insim_pc = "reading"
    /\ connection_attempt = 1
    /\ buffer = <<>>
    /\ wire = <<>>
    /\ eof = FALSE
    /\ sent = 0
    /\ closes = 0
    /\ error = ""
    /\ written = <<>>
    /\ active_layout_name = Some(NameA)
    /\ lyt_interface = Some(LoadedFrom(NameA))
    /\ insim_state = None
    /\ tasks = <<>>
    /\ handled = <<>>
    /\ reloads = <<>>
    /\ received = <<>>
    /\ partial_seen = FALSE
    /\ call = None
    /\ enter_pc = "entered"
    /\ arg = None
    /\ ret = None
    /\ TickIdle
    /\ ControlIdle
    /\ SendIdle

\* the tick loop yields a snapshot and LFSInterface awaits on_lfs_data for it
OnLfsData ==
    /\ send_log.stored < MaxStored
    /\ data_to_send_outside' = on_lfs_data(send_log.stored + 1)
    /\ send_log' = [send_log EXCEPT !.stored = @ + 1]
    /\ UNCHANGED <<send_pc, send_json>>
    /\ UNCHANGED <<insim_pc, connection_attempt, buffer, error, received, partial_seen, call,
                   objvars, envvars, entervars, methodvars, tickvars, ctlvars>>

\* the sleep of line 68 ends: with a snapshot stored the sender encodes the
\* snapshot the field holds now (send_json stands for it) and starts to send,
\* else it sleeps again
SendStarts ==
    /\ send_pc = "sleeping"
    /\ data_to_send_outside # None
    /\ send_json' = data_to_send_outside
    /\ send_pc' = "sending"
    /\ UNCHANGED <<data_to_send_outside, send_log>>
    /\ UNCHANGED <<insim_pc, connection_attempt, buffer, error, received, partial_seen, call,
                   objvars, envvars, entervars, methodvars, tickvars, ctlvars>>

\* the await of line 74 ends, with the datagram sent or with
\* ConnectionRefusedError (no consumer listens), and line 78 clears the field
SendEnds ==
    /\ send_pc = "sending"
    /\ \E refused \in BOOLEAN :
           send_log' = IF refused THEN send_log
                       ELSE [send_log EXCEPT !.sent = Append(@, send_json[1])]
    /\ data_to_send_outside' = None
    /\ send_json' = None
    /\ send_pc' = "sleeping"
    /\ UNCHANGED <<insim_pc, connection_attempt, buffer, error, received, partial_seen, call,
                   objvars, envvars, entervars, methodvars, tickvars, ctlvars>>

NextPropagator == OnLfsData \/ SendStarts \/ SendEnds

SpecPropagator == InitPropagator /\ [][NextPropagator]_vars

WasSent(snapshot) == \E j \in 1..Len(send_log.sent) : send_log.sent[j] = snapshot

\* C40: the snapshot stored last was sent, or is still stored, or is the one
\* being sent (every other unsent snapshot was overwritten by it or by one
\* before it); no snapshot was sent twice.
C40_LatestSnapshotNotLost ==
    /\ send_log.stored > 0 =>
           \/ WasSent(send_log.stored)
           \/ data_to_send_outside = Some(send_log.stored)
           \/ send_pc = "sending" /\ send_json = Some(send_log.stored)
    /\ \A j, k \in 1..Len(send_log.sent) : j # k => send_log.sent[j] # send_log.sent[k]

\* what the code does keep: nothing is sent twice, and snapshots are sent in
\* the order they were stored
NoSnapshotSentTwice ==
    \A j, k \in 1..Len(send_log.sent) : j < k => send_log.sent[j] < send_log.sent[k]

\* snapshot 1 was sent, snapshot 2 was stored while it was being sent and
\* was cleared with it: nothing is stored, nothing is being sent
NewerSnapshotCleared ==
    /\ send_log = [stored |-> 2, sent |-> <<1>>]
    /\ data_to_send_outside = None
    /\ send_pc = "sleeping"

=============================================================================
